---------------------------- MODULE Spec2Model ----------------------------
(***************************************************************************)
(* Model of porsche_monitor: the filter engine (filters.evaluate), the     *)
(* change tracker (storage.Storage.upsert_and_diff), the fetch() of the    *)
(* source adapters with the retry policy of Source._get, and cli.run.      *)
(*                                                                         *)
(* Python str values are TLA+ strings; TLC evaluates Len, SubSeq and \o on *)
(* them, so substring search, lower-casing, strip, number formatting and   *)
(* number parsing are computed character by character as the code does.    *)
(* An Optional[T] value is None (the empty tuple) or Some(v) (a 1-tuple).  *)
(***************************************************************************)
EXTENDS Integers, Sequences, FiniteSets, TLC

VARIABLES
    listing,        \* filters.evaluate: the Listing argument
    criteria,       \* filters.evaluate: the criteria dict
    result,         \* filters.evaluate: the FilterResult returned (None before)
    rows,           \* storage: table listings, key -> row (None: no row)
    price_history,  \* storage: table price_history, a set of rows
    now,            \* storage: the clock read by upsert_and_diff, in seconds
    upserted,       \* storage: the argument of the last upsert_and_diff
    before,         \* storage: the two tables as they were before that call
    change,         \* storage: the ChangeInfo it returned (None before)
    calls,          \* storage: number of upsert_and_diff calls so far
    seen,           \* storage: the keys upsert_and_diff was called with
    latest,         \* storage: key -> its first call's time, the listings of
                    \*          its last call and of the one before
    adapter,        \* fetch: the class whose fetch() runs
    has_curl_cffi,  \* fetch: mobile_de._HAS_CURL_CFFI, fixed by the install
    pc,             \* fetch: where fetch() stands
    url_i,          \* fetch: number of the configured URL in work (0: none)
    page,           \* fetch: AutoScout24Source.fetch, page (0: between URLs)
    attempt,        \* fetch: attempts made by the _get call in work
    tries,          \* fetch: the outcomes of those attempts, in order
    get_result,     \* fetch: how that _get call ended ("none": it has not)
    all_listings,   \* fetch: all_listings, each listing by its source_id
    seen_ids,       \* fetch: AutoScout24Source.fetch, seen_ids
    idle,           \* fetch: seconds slept since the last HTTP request
    blocked_urls,   \* fetch: the URLs on which a bot block was recognised
    after_block,    \* fetch: of those, the URLs requested again afterwards
    fetched,        \* fetch: URL -> how its handling ended (once it has)
    run_pc,         \* run: where cli.run stands
    cfg,            \* run: the Config of config.yaml
    src_i,          \* run: number of the source in work (0: none yet)
    pending,        \* run: the listings of that source still to handle
    results,        \* run: results
    changes,        \* run: changes
    notified,       \* run: the send_telegram calls: listing key, run and
                    \*      place of the listing in results
    report,         \* run: what write_report wrote last (None: nothing)
    failures,       \* run: what failed during the run in work
    runs,           \* run: number of the run in work
    parser,         \* parse: the response parser that is called
    html,           \* parse: the page it is called on
    parsed          \* parse: the listings it returned (None before)

vars == <<listing, criteria, result, rows, price_history, now, upserted,
          before, change, calls, seen, latest, adapter, has_curl_cffi, pc,
          url_i, page, attempt, tries, get_result, all_listings, seen_ids,
          idle, blocked_urls, after_block, fetched, run_pc, cfg, src_i,
          pending, results, changes, notified, report, failures, runs,
          parser, html, parsed>>

filterVars == <<listing, criteria, result>>
storageVars ==
    <<rows, price_history, now, upserted, before, change, calls, seen,
      latest>>
fetchVars ==
    <<adapter, has_curl_cffi, pc, url_i, page, attempt, tries, get_result,
      all_listings, seen_ids, idle, blocked_urls, after_block, fetched>>
runVars ==
    <<run_pc, cfg, src_i, pending, results, changes, notified, report,
      failures, runs>>
parseVars == <<parser, html, parsed>>

----------------------------------------------------------------------------
(* Optional values *)

None == <<>>
Some(v) == <<v>>
IsNone(x) == x = None
Val(x) == x[1]

----------------------------------------------------------------------------
(* Python str operations *)

UpperCase == "ABCDEFGHIJKLMNOPQRSTUVWXYZ"
LowerCase == "abcdefghijklmnopqrstuvwxyz"
Digits == "0123456789"

\* 1-based position of the one-character string c in alphabet, 0 if absent
IndexIn(c, alphabet) ==
    IF \E i \in 1..Len(alphabet) : SubSeq(alphabet, i, i) = c
    THEN CHOOSE i \in 1..Len(alphabet) : SubSeq(alphabet, i, i) = c
    ELSE 0

CharAt(s, i) == SubSeq(s, i, i)

\* the upper-case letters, each mapped to its lower-case letter
UpperToLower ==
    [c \in {CharAt(UpperCase, i) : i \in 1..Len(UpperCase)} |->
        CharAt(LowerCase, IndexIn(c, UpperCase))]

LowerChar(c) == IF c \in DOMAIN UpperToLower THEN UpperToLower[c] ELSE c

\* str.lower(), the halves of s lower-cased and joined
RECURSIVE Lower(_)
Lower(s) ==
    IF Len(s) = 0 THEN ""
    ELSE IF Len(s) = 1 THEN LowerChar(s)
    ELSE LET h == Len(s) \div 2
         IN  Lower(SubSeq(s, 1, h)) \o Lower(SubSeq(s, h + 1, Len(s)))

\* needle in text
Contains(needle, text) ==
    \/ Len(needle) = 0
    \/ \E i \in 1..(Len(text) - Len(needle) + 1) :
           SubSeq(text, i, i + Len(needle) - 1) = needle

IsSpace(c) == c \in {" ", "\t", "\n"}

RECURSIVE LStrip(_)
LStrip(s) ==
    IF Len(s) > 0 /\ IsSpace(CharAt(s, 1))
    THEN LStrip(SubSeq(s, 2, Len(s)))
    ELSE s

RECURSIVE RStrip(_)
RStrip(s) ==
    IF Len(s) > 0 /\ IsSpace(CharAt(s, Len(s)))
    THEN RStrip(SubSeq(s, 1, Len(s) - 1))
    ELSE s

\* str.strip()
Strip(s) == RStrip(LStrip(s))

\* sep.join(parts)
RECURSIVE Join(_, _)
Join(parts, sep) ==
    IF Len(parts) = 0 THEN ""
    ELSE IF Len(parts) = 1 THEN parts[1]
    ELSE parts[1] \o sep \o Join(Tail(parts), sep)

\* str.replace(" ", ""), the halves of s stripped of spaces and joined
RECURSIVE RemoveSpaces(_)
RemoveSpaces(s) ==
    IF Len(s) = 0 THEN ""
    ELSE IF Len(s) = 1 THEN (IF s = " " THEN "" ELSE s)
    ELSE LET h == Len(s) \div 2
         IN  RemoveSpaces(SubSeq(s, 1, h))
             \o RemoveSpaces(SubSeq(s, h + 1, Len(s)))

DigitSet == {CharAt(Digits, i) : i \in 1..Len(Digits)}

IsDigit(c) == c \in DigitSet

\* int(s) for a string of decimal digits
RECURSIVE ParseInt(_)
ParseInt(s) ==
    IF Len(s) = 0 THEN 0
    ELSE 10 * ParseInt(SubSeq(s, 1, Len(s) - 1))
         + (IndexIn(CharAt(s, Len(s)), Digits) - 1)

\* str(n) for a natural number
RECURSIVE NatToStr(_)
NatToStr(n) ==
    IF n < 10 THEN CharAt(Digits, n + 1)
    ELSE NatToStr(n \div 10) \o CharAt(Digits, (n % 10) + 1)

\* str(n) / f"{n}" for an int
IntToStr(n) == IF n < 0 THEN "-" \o NatToStr(0 - n) ELSE NatToStr(n)

\* f"{x}" for an Optional[int]
OptIntToStr(x) == IF IsNone(x) THEN "None" ELSE IntToStr(Val(x))

\* f"{x}" for an Optional[str]
OptStrToStr(x) == IF IsNone(x) THEN "None" ELSE Val(x)

\* f"{x}" for an Optional[bool]
OptBoolToStr(x) ==
    IF IsNone(x) THEN "None" ELSE IF Val(x) THEN "True" ELSE "False"

\* re.search(r"(\d{4})", s): the first four consecutive digits, None if none
FirstFourDigits(s) ==
    LET hits == {i \in 1..(Len(s) - 3) :
                    \A j \in 0..3 : IsDigit(CharAt(s, i + j))}
    IN  IF hits = {} THEN None
        ELSE LET i == CHOOSE h \in hits : \A g \in hits : h <= g
             IN  Some(SubSeq(s, i, i + 3))

----------------------------------------------------------------------------
(* filters.py *)

\* filters._contains_any, line 17, given t = text.lower()
_contains_any_in(t, needles) == \E n \in needles : Contains(Lower(n), t)

\* filters._contains_any
_contains_any(text, needles) == _contains_any_in(Lower(text), needles)

\* `if x:` for an Optional[int] / Optional[str]
TruthyInt(x) == ~IsNone(x) /\ Val(x) # 0
TruthyStr(x) == ~IsNone(x) /\ Len(Val(x)) > 0

\* mutant of _extract_year: first_registration is not looked at
_extract_year_FieldOnly(l) == IF TruthyInt(l.year) THEN l.year ELSE None

\* filters._extract_year
_extract_year(l) ==
    IF TruthyInt(l.year) THEN l.year
    ELSE IF TruthyStr(l.first_registration)
         THEN LET m == FirstFourDigits(Val(l.first_registration))
              IN  IF IsNone(m) THEN None ELSE Some(ParseInt(Val(m)))
         ELSE None

GenYearMin == 2019
GenYearMax == 2024

\* filters._is_992_1
_is_992_1(l) ==
    LET gen == IF TruthyStr(l.generation)
               THEN RemoveSpaces(Lower(Val(l.generation))) ELSE ""
        year == _extract_year(l)
        text == Lower(l.title \o " " \o l.options_text)
    IN  IF TruthyStr(l.generation)
           /\ (Contains("992.1", gen) \/ Contains("992i", gen))
        THEN TRUE
        ELSE IF TruthyStr(l.generation)
                /\ (Contains("992.2", gen) \/ Contains("992ii", gen))
        THEN FALSE
        ELSE IF ~IsNone(year)
        THEN GenYearMin <= Val(year) /\ Val(year) <= GenYearMax
        ELSE IF Contains("992", text)
        THEN TRUE
        ELSE IF Contains("991", text) \/ Contains("997", text)
                \/ Contains("996", text) \/ Contains("964", text)
        THEN FALSE
        ELSE TRUE

\* `x or ''` for an Optional[str]
OrEmpty(x) == IF TruthyStr(x) THEN Val(x) ELSE ""

\* mutant of _is_target_body: "gts" is looked for before "targa"
_is_target_body_GtsFirst(l) ==
    LET text == Lower(l.title \o " " \o OrEmpty(l.variant) \o " "
                      \o OrEmpty(l.body_type))
    IN  IF Contains("gts", text) THEN TRUE
        ELSE IF Contains("targa", text) THEN FALSE
        ELSE FALSE

\* filters._is_target_body
_is_target_body(l) ==
    LET text == Lower(l.title \o " " \o OrEmpty(l.variant) \o " "
                      \o OrEmpty(l.body_type))
    IN  IF Contains("targa", text) THEN FALSE
        ELSE IF Contains("gts", text) THEN TRUE
        ELSE FALSE

\* The keyword tables are dicts: iteration is in insertion order.
HARD_MUST_HAVE_KEYWORDS == <<
    [name |-> "Sport Chrono Paket",
     keywords |-> {"sport chrono", "sportchrono", "sport-chrono", "chrono"}],
    [name |-> "Liftsystem Vorderachse (Front Axle Lift)",
     keywords |-> {"liftsystem", "front axle lift", "vorderachs-lift",
                   "lift system", "frontaxlelift", "lift"}],
    [name |-> "Hinterachslenkung (Rear-axle steering)",
     keywords |-> {"hinterachslenkung", "rear-axle steering",
                   "rear axle steering", "hinterachs-lenkung", "4ws"}] >>

SOFT_MUST_HAVE_KEYWORDS == <<
    [name |-> "Adaptive cruise (Abstandsregeltempostat / InnoDrive)",
     keywords |-> {"abstandsregeltempostat", "innodrive", "adaptive cruise",
                   "abstandsregel", "acc", "adaptive tempomat"}],
    [name |-> "LED-Matrix / PDLS Plus",
     keywords |-> {"led-matrix", "led matrix", "pdls plus", "pdls+",
                   "dynamic light system plus", "hd-matrix", "hd matrix"}],
    [name |-> "BOSE or Burmester",
     keywords |-> {"bose", "burmester"}],
    [name |-> "Adaptive Sports Seats Plus (18-way)",
     keywords |-> {"18-wege", "18 wege", "adaptive sportsitze",
                   "adaptive sport seats plus", "sportsitze plus",
                   "18-way", "adaptiv-sportsitze"}] >>

NICE_TO_HAVE_KEYWORDS == <<
    [name |-> "90L fuel tank",
     keywords |-> {"kraftstoffbehälter 90", "90 l tank", "90-liter",
                   "90l tank", "kraftstoffbehaelter 90"}],
    [name |-> "Surround View / 360 camera",
     keywords |-> {"surround view", "360", "surroundview"}],
    [name |-> "Glass sunroof",
     keywords |-> {"schiebe-/hubdach", "hubdach aus glas", "schiebedach",
                   "glass sunroof", "panorama", "gsd"}],
    [name |-> "PPF / Steinschlagschutzfolie",
     keywords |-> {"steinschlagschutzfolie", "ppf", "lackschutzfolie",
                   "paint protection"}] >>

\* evaluate, lines 126-131: the combined text for keyword detection
SearchText(l) ==
    Strip(Join(<<l.title, l.options_text, Join(l.options_list, " ")>>, " "))

\* evaluate, lines 182-184, 194-196, 203-205: for each option of a table, in
\* order, whether _contains_any finds one of its keywords in text. Every call
\* is on the same text, whose lower-casing is passed in as t.
RECURSIVE Found(_, _)
Found(table, t) ==
    IF Len(table) = 0 THEN <<>>
    ELSE <<_contains_any_in(t, table[1].keywords)>>
         \o Found(Tail(table), t)

\* the names of the options of a table, in order, whose found flag is want
RECURSIVE OptionsWhere(_, _, _)
OptionsWhere(table, found, want) ==
    IF Len(table) = 0 THEN <<>>
    ELSE (IF found[1] = want THEN <<table[1].name>> ELSE <<>>)
         \o OptionsWhere(Tail(table), Tail(found), want)

\* criteria.get(key, default)
Get(x, default) == IF IsNone(x) THEN default ELSE Val(x)

DefaultMileageMax == 50000
DefaultOwnersMax == 2
DefaultYearMin == 2020
DefaultYearMax == 2024
ApprovedMonthsMin == 12
RichDataLen == 20
StartScore == 100
NiceBonus == 10
SoftPenalty == 10
HardPenalty == 15
GeoBase == 10
GeoStep == 2
GeoFloor == 2

\* mutant of AccidentReasons: tests `is None` where the code tests `is False`
AccidentReasons_NoneForFalse(l) ==
    IF IsNone(l.accident_free)
    THEN <<"not accident-free (Unfallfrei required)">> ELSE <<>>

\* evaluate, lines 135-136
AccidentReasons(l) ==
    IF l.accident_free = Some(FALSE)
    THEN <<"not accident-free (Unfallfrei required)">> ELSE <<>>

\* mutant of MileageReasons: no limit when the key is absent, as for the price
MileageReasons_NoDefault(l, c) ==
    IF ~IsNone(c.mileage_km_max) /\ ~IsNone(l.mileage_km)
       /\ Val(l.mileage_km) > Val(c.mileage_km_max)
    THEN <<"mileage " \o IntToStr(Val(l.mileage_km)) \o " km > "
           \o IntToStr(Val(c.mileage_km_max)) \o " km">>
    ELSE <<>>

\* evaluate, lines 138-140
MileageReasons(l, c) ==
    LET mileage_max == Get(c.mileage_km_max, DefaultMileageMax)
    IN  IF ~IsNone(l.mileage_km) /\ Val(l.mileage_km) > mileage_max
        THEN <<"mileage " \o IntToStr(Val(l.mileage_km)) \o " km > "
               \o IntToStr(mileage_max) \o " km">>
        ELSE <<>>

\* mutant of ApprovedReasons: an absent value is rejected whatever the text
ApprovedReasons_AbsentRejects(l, text_lower) ==
    IF ~IsNone(l.porsche_approved_months)
       /\ Val(l.porsche_approved_months) < ApprovedMonthsMin
    THEN <<"Porsche Approved " \o IntToStr(Val(l.porsche_approved_months))
           \o " months < 12 months required">>
    ELSE IF IsNone(l.porsche_approved_months)
    THEN <<"Porsche Approved not mentioned">>
    ELSE <<>>

\* evaluate, lines 144-151
ApprovedReasons(l, text_lower) ==
    IF ~IsNone(l.porsche_approved_months)
       /\ Val(l.porsche_approved_months) < ApprovedMonthsMin
    THEN <<"Porsche Approved " \o IntToStr(Val(l.porsche_approved_months))
           \o " months < 12 months required">>
    ELSE IF IsNone(l.porsche_approved_months)
            /\ ~Contains("approved", text_lower)
    THEN <<"Porsche Approved not mentioned">>
    ELSE <<>>

\* evaluate, lines 153-155
PriceReasons(l, c) ==
    IF TruthyInt(c.price_eur_max) /\ ~IsNone(l.price_eur)
       /\ Val(l.price_eur) > Val(c.price_eur_max)
    THEN <<"price " \o IntToStr(Val(l.price_eur)) \o " EUR > "
           \o IntToStr(Val(c.price_eur_max)) \o " EUR">>
    ELSE <<>>

\* evaluate, lines 157-159
OwnersReasons(l, c) ==
    LET owners_max == Get(c.owners_max, DefaultOwnersMax)
    IN  IF ~IsNone(l.owners) /\ Val(l.owners) > owners_max
        THEN <<"owners " \o IntToStr(Val(l.owners)) \o " > "
               \o IntToStr(owners_max)>>
        ELSE <<>>

\* evaluate, lines 161-164
YearReasons(l, c) ==
    LET year_range == Get(c.years, <<DefaultYearMin, DefaultYearMax>>)
        year == _extract_year(l)
    IN  IF ~IsNone(year)
           /\ (Val(year) < year_range[1] \/ Val(year) > year_range[2])
        THEN <<"year " \o IntToStr(Val(year)) \o " outside "
               \o IntToStr(year_range[1]) \o "-" \o IntToStr(year_range[2])>>
        ELSE <<>>

\* evaluate, lines 166-167
GenerationReasons(l) ==
    IF ~_is_992_1(l) THEN <<"not 992.1 generation">> ELSE <<>>

\* evaluate, lines 169-170
BodyReasons(l) ==
    IF ~_is_target_body(l)
    THEN <<"body type excluded (Targa/non-GTS)">> ELSE <<>>

\* mutant of has_rich_data: >= where the code has >
has_rich_data_OffByOne(l) == Len(l.options_text) >= RichDataLen

\* evaluate, line 176
has_rich_data(l) == Len(l.options_text) > RichDataLen

\* evaluate, lines 181-186
hard_missing(found) == OptionsWhere(HARD_MUST_HAVE_KEYWORDS, found, FALSE)

\* evaluate, lines 188-191
HardReasons(l, hard) ==
    IF Len(hard) > 0 /\ has_rich_data(l)
    THEN <<"missing required: " \o Join(hard, ", ")>>
    ELSE <<>>

\* evaluate, lines 194-198
must_have_missing(found) == OptionsWhere(SOFT_MUST_HAVE_KEYWORDS, found, FALSE)

\* evaluate, lines 203-208
nice_to_have_present(found) == OptionsWhere(NICE_TO_HAVE_KEYWORDS, found, TRUE)

\* mutant of GeoIndex: the entry is not lower-cased before the search
GeoIndex_CaseSensitive(geo, loc_lower) ==
    LET hits == {i \in 1..Len(geo) : Contains(geo[i], loc_lower)}
    IN  IF hits = {} THEN 0 - 1
        ELSE (CHOOSE h \in hits : \A g \in hits : h <= g) - 1

\* smallest index (0-based, as enumerate gives it) of a geo_priority entry
\* that occurs in loc_lower; -1 if there is none
GeoIndex(geo, loc_lower) ==
    LET hits == {i \in 1..Len(geo) : Contains(Lower(geo[i]), loc_lower)}
    IN  IF hits = {} THEN 0 - 1
        ELSE (CHOOSE h \in hits : \A g \in hits : h <= g) - 1

Max(a, b) == IF a >= b THEN a ELSE b

\* mutant of GeoBonus: 10 - i * 2 without the floor of 2
GeoBonus_NoFloor(l, c) ==
    LET geo == Get(c.geo_priority, <<>>)
    IN  IF TruthyStr(l.location) /\ Len(geo) > 0
        THEN LET i == GeoIndex(geo, Lower(Val(l.location)))
             IN  IF i < 0 THEN 0 ELSE GeoBase - i * GeoStep
        ELSE 0

\* evaluate, lines 215-221
GeoBonus(l, c) ==
    LET geo == Get(c.geo_priority, <<>>)
    IN  IF TruthyStr(l.location) /\ Len(geo) > 0
        THEN LET i == GeoIndex(geo, Lower(Val(l.location)))
             IN  IF i < 0 THEN 0 ELSE Max(GeoBase - i * GeoStep, GeoFloor)
        ELSE 0

\* mutant of Score: a nice-to-have found is deducted, not added
Score_NiceDeducted(nice, soft, hard, geo_bonus) ==
    StartScore
    - Len(nice) * NiceBonus
    - Len(soft) * SoftPenalty
    - Len(hard) * HardPenalty
    + geo_bonus

\* mutant of Score: a soft must-have missing weighs like a hard one
Score_SoftAsHard(nice, soft, hard, geo_bonus) ==
    StartScore
    + Len(nice) * NiceBonus
    - Len(soft) * HardPenalty
    - Len(hard) * HardPenalty
    + geo_bonus

\* evaluate, lines 202-221
Score(nice, soft, hard, geo_bonus) ==
    StartScore
    + Len(nice) * NiceBonus
    - Len(soft) * SoftPenalty
    - Len(hard) * HardPenalty
    + geo_bonus

\* evaluate, lines 135-170: the reasons of the field checks, in the order the
\* checks append them
FieldReasons(l, c, text_lower) ==
    AccidentReasons(l) \o MileageReasons(l, c)
    \o ApprovedReasons(l, text_lower)
    \o PriceReasons(l, c) \o OwnersReasons(l, c) \o YearReasons(l, c)
    \o GenerationReasons(l) \o BodyReasons(l)

\* mutant of IsMatch: tolerates one reason
IsMatch_OneAllowed(reasons) == Len(reasons) <= 1

\* evaluate, line 223
IsMatch(reasons) == Len(reasons) = 0

\* evaluate, lines 184, 196, 205: the detected dict, as the set of its items
Detected(table, found) ==
    {<<table[i].name, found[i]>> : i \in 1..Len(table)}

\* filters.evaluate
evaluate(l, c) ==
    LET text == SearchText(l)
        text_lower == Lower(text)
        hard_found == Found(HARD_MUST_HAVE_KEYWORDS, text_lower)
        soft_found == Found(SOFT_MUST_HAVE_KEYWORDS, text_lower)
        nice_found == Found(NICE_TO_HAVE_KEYWORDS, text_lower)
        hard == hard_missing(hard_found)
        soft == must_have_missing(soft_found)
        nice == nice_to_have_present(nice_found)
        reasons == FieldReasons(l, c, text_lower) \o HardReasons(l, hard)
    IN  [listing |-> l,
         is_match |-> IsMatch(reasons),
         score |-> Score(nice, soft, hard, GeoBonus(l, c)),
         must_have_missing |-> soft,
         nice_to_have_present |-> nice,
         reasons |-> reasons,
         detected |-> Detected(HARD_MUST_HAVE_KEYWORDS, hard_found)
                      \cup Detected(SOFT_MUST_HAVE_KEYWORDS, soft_found)
                      \cup Detected(NICE_TO_HAVE_KEYWORDS, nice_found)]

----------------------------------------------------------------------------
(* Inputs of evaluate *)

\* how many fields of an input (listing and criteria together) differ from
\* BaseListing and BaseCriteria
MaxOverrides == 2

\* tests/test_filters.py, _make_listing: a listing that matches, every hard
\* and soft must-have in its options_text
BaseListing ==
    [source |-> "test", source_id |-> "1", url |-> "https://example.com/1",
     title |-> "Porsche 911 992.1 Carrera 4 GTS",
     price_eur |-> Some(140000), mileage_km |-> Some(20000),
     first_registration |-> Some("05/2022"), year |-> Some(2022),
     location |-> Some("Munich"), accident_free |-> Some(TRUE),
     porsche_approved_months |-> Some(12), owners |-> Some(1),
     generation |-> None, body_type |-> None, variant |-> None,
     options_text |-> "Sport Chrono, Liftsystem, Hinterachslenkung, "
                      \o "InnoDrive, LED-Matrix, BOSE, 18-Wege",
     options_list |-> <<>>, status |-> None, image_url |-> None,
     dealer_name |-> None]

\* the values a field is overridden with
ListingAlts ==
    [title |-> {"Porsche 911 992.2 Carrera GTS",
                "Porsche 911 992 Carrera GTS",
                "Porsche 911 991 Carrera GTS",
                "Porsche 911 992.1 Targa 4 GTS",
                "Porsche 911 992.1 Carrera 4S",
                "Porsche 911 992.1 Carrera 4 GTS Cabriolet"},
     options_text |-> {"",
                       "Porsche Approved 12M",
                       "Porsche Approved 12 M",
                       "Chrono, Lift, 4WS, Sitzheizung",
                       "ACC, PDLS+, Bose, 18-Way, 360, GSD, PPF, 90-Liter"},
     options_list |-> {<<"Burmester", "Panorama">>},
     accident_free |-> {None, Some(FALSE)},
     mileage_km |-> {None, Some(50000), Some(50001)},
     porsche_approved_months |-> {None, Some(11)},
     price_eur |-> {None, Some(200000)},
     owners |-> {None, Some(3)},
     year |-> {None, Some(0), Some(2025)},
     first_registration |-> {None, Some("03/2018"), Some("n/a")},
     generation |-> {Some("992.1"), Some("992.2"), Some("992 II")},
     variant |-> {Some("Carrera 4 gts")},
     body_type |-> {Some("TARGA")},
     location |-> {None, Some("Hamburg"), Some("Stuttgart")}]

\* a criteria dict with every recognised key; a key that is absent is None
BaseCriteria ==
    [mileage_km_max |-> Some(50000), price_eur_max |-> Some(150000),
     owners_max |-> Some(2), years |-> Some(<<2020, 2024>>),
     geo_priority |-> Some(<<"Munich", "Stuttgart", "Frankfurt">>)]

CriteriaAlts ==
    [mileage_km_max |-> {None, Some(60000)},
     price_eur_max |-> {None, Some(0)},
     owners_max |-> {None, Some(3)},
     years |-> {None, Some(<<2023, 2025>>)},
     geo_priority |-> {None,
                       Some(<<"munich", "Berlin", "Dresden", "Leipzig",
                              "Kiel", "Hamburg">>)}]

\* base with one field overridden
Variants(base, alts) ==
    UNION {{[base EXCEPT ![f] = v] : v \in alts[f]} : f \in DOMAIN alts}

\* base with at most k fields overridden
RECURSIVE Ball(_, _, _)
Ball(bases, alts, k) ==
    IF k = 0 THEN bases
    ELSE LET B == Ball(bases, alts, k - 1)
         IN  B \cup UNION {Variants(b, alts) : b \in B}

FilterInputs ==
    UNION {Ball({BaseListing}, ListingAlts, k)
           \X Ball({BaseCriteria}, CriteriaAlts, MaxOverrides - k) :
           k \in 0..MaxOverrides}

----------------------------------------------------------------------------
(* storage.py *)

\* mutant of _fingerprint: the url is part of the payload
_fingerprint_WithUrl(l) ==
    l.url \o "|" \o l.title \o "|" \o OptIntToStr(l.price_eur) \o "|"
    \o OptIntToStr(l.mileage_km) \o "|"
    \o OptStrToStr(l.first_registration) \o "|" \o OptStrToStr(l.location)
    \o "|" \o OptBoolToStr(l.accident_free) \o "|"
    \o OptIntToStr(l.porsche_approved_months) \o "|"
    \o l.options_text \o "|" \o OptStrToStr(l.status)

\* Storage._fingerprint: the payload that is digested. SHA-256 is taken to be
\* collision-free, so the digest is modelled by the payload itself.
_fingerprint(l) ==
    l.title \o "|" \o OptIntToStr(l.price_eur) \o "|"
    \o OptIntToStr(l.mileage_km) \o "|"
    \o OptStrToStr(l.first_registration) \o "|" \o OptStrToStr(l.location)
    \o "|" \o OptBoolToStr(l.accident_free) \o "|"
    \o OptIntToStr(l.porsche_approved_months) \o "|"
    \o l.options_text \o "|" \o OptStrToStr(l.status)

\* the primary key of table listings
Key(l) == <<l.source, l.source_id>>

\* upsert_and_diff, line 81: extras = listing.model_dump_json(), the whole
\* listing (the serialisation is modelled by the listing it serialises)
Extras(l) == l

\* upsert_and_diff, lines 90-108: the row INSERTed for a new key at time t
InsertedRow(l, fp, t) ==
    [source |-> l.source, source_id |-> l.source_id, url |-> l.url,
     title |-> l.title, first_seen |-> t, last_seen |-> t,
     price_eur |-> l.price_eur, mileage_km |-> l.mileage_km,
     status |-> l.status, fingerprint |-> fp, extras |-> Extras(l)]

\* mutant of UpdatedRow: the UPDATE leaves the fingerprint column out
UpdatedRow_StaleFingerprint(cur, l, fp, t) ==
    [cur EXCEPT !.url = l.url, !.title = l.title, !.last_seen = t,
                !.price_eur = l.price_eur, !.mileage_km = l.mileage_km,
                !.status = l.status, !.extras = Extras(l)]

\* mutant of UpdatedRow: a null of the listing keeps the stored value
\* (COALESCE)
UpdatedRow_Merge(cur, l, fp, t) ==
    [cur EXCEPT !.url = l.url, !.title = l.title, !.last_seen = t,
                !.price_eur = IF IsNone(l.price_eur) THEN @ ELSE l.price_eur,
                !.mileage_km = l.mileage_km,
                !.status = IF IsNone(l.status) THEN @ ELSE l.status,
                !.fingerprint = fp, !.extras = Extras(l)]

\* upsert_and_diff, lines 132-148: the row after the UPDATE at time t
UpdatedRow(cur, l, fp, t) ==
    [cur EXCEPT !.url = l.url, !.title = l.title, !.last_seen = t,
                !.price_eur = l.price_eur, !.mileage_km = l.mileage_km,
                !.status = l.status, !.fingerprint = fp,
                !.extras = Extras(l)]

\* mutant of RecordPrice: `if listing.price_eur:` for `is not None`
RecordPrice_Truthy(history, l, t) ==
    IF TruthyInt(l.price_eur)
       /\ ~\E h \in history : /\ h.source = l.source
                              /\ h.source_id = l.source_id
                              /\ h.recorded = t
    THEN history \cup {[source |-> l.source, source_id |-> l.source_id,
                        recorded |-> t, price_eur |-> Val(l.price_eur)]}
    ELSE history

\* mutant of RecordPrice: INSERT OR REPLACE for INSERT OR IGNORE
RecordPrice_Replace(history, l, t) ==
    IF ~IsNone(l.price_eur)
    THEN {h \in history : ~(/\ h.source = l.source
                            /\ h.source_id = l.source_id
                            /\ h.recorded = t)}
         \cup {[source |-> l.source, source_id |-> l.source_id,
                recorded |-> t, price_eur |-> Val(l.price_eur)]}
    ELSE history

\* upsert_and_diff, lines 109-115 and 149-155: INSERT OR IGNORE INTO
\* price_history, whose primary key is (source, source_id, recorded)
RecordPrice(history, l, t) ==
    IF ~IsNone(l.price_eur)
       /\ ~\E h \in history : /\ h.source = l.source
                              /\ h.source_id = l.source_id
                              /\ h.recorded = t
    THEN history \cup {[source |-> l.source, source_id |-> l.source_id,
                        recorded |-> t, price_eur |-> Val(l.price_eur)]}
    ELSE history

\* a dict with no key
EmptyDict == [k \in {} |-> None]

\* mutant of PriceChanges: the pair is (new, old)
PriceChanges_Swapped(prev_price, l) ==
    IF ~IsNone(prev_price) /\ ~IsNone(l.price_eur)
       /\ Val(prev_price) # Val(l.price_eur)
    THEN "price_eur" :> <<Val(l.price_eur), Val(prev_price)>>
    ELSE EmptyDict

\* upsert_and_diff, lines 124-125
PriceChanges(prev_price, l) ==
    IF ~IsNone(prev_price) /\ ~IsNone(l.price_eur)
       /\ Val(prev_price) # Val(l.price_eur)
    THEN "price_eur" :> <<Val(prev_price), Val(l.price_eur)>>
    ELSE EmptyDict

\* mutant of StatusChanges: `is not None` where the code tests truthiness
StatusChanges_NotNone(prev_status, l) ==
    IF ~IsNone(prev_status) /\ ~IsNone(l.status)
       /\ Val(prev_status) # Val(l.status)
    THEN "status" :> <<Val(prev_status), Val(l.status)>>
    ELSE EmptyDict

\* upsert_and_diff, lines 127-128
StatusChanges(prev_status, l) ==
    IF TruthyStr(prev_status) /\ TruthyStr(l.status)
       /\ Val(prev_status) # Val(l.status)
    THEN "status" :> <<Val(prev_status), Val(l.status)>>
    ELSE EmptyDict

\* upsert_and_diff, line 118: ChangeInfo(is_new=True), the other fields at
\* their schema defaults
NewInfo ==
    [is_new |-> TRUE, is_changed |-> FALSE, changes |-> EmptyDict,
     previous_price |-> None, previous_status |-> None]

\* upsert_and_diff, lines 120-130 and 161-167: the ChangeInfo for a key whose
\* row is cur
DiffInfo(cur, l, fp) ==
    [is_new |-> FALSE,
     is_changed |-> cur.fingerprint # fp,
     changes |-> PriceChanges(cur.price_eur, l) @@ StatusChanges(cur.status, l),
     previous_price |-> cur.price_eur,
     previous_status |-> cur.status]

\* mutant of WithRow: the write drops the rows of the other keys
WithRow_OnlyKey(table, key, row) == [k \in {key} |-> row]

\* table listings after the row of key is written
WithRow(table, key, row) ==
    [k \in DOMAIN table \cup {key} |-> IF k = key THEN row ELSE table[k]]

----------------------------------------------------------------------------
(* Inputs of upsert_and_diff *)

\* number of upsert_and_diff calls in a run
MaxUpserts == 3

\* tests/test_storage.py, _make_listing
StoredListing ==
    [source |-> "test", source_id |-> "abc123",
     url |-> "https://example.com/1",
     title |-> "Porsche 911 Carrera 4 GTS",
     price_eur |-> Some(140000), mileage_km |-> Some(20000),
     first_registration |-> Some("05/2022"), year |-> None,
     location |-> Some("Munich"), accident_free |-> Some(TRUE),
     porsche_approved_months |-> Some(12), owners |-> None,
     generation |-> None, body_type |-> None, variant |-> None,
     options_text |-> "Sport Chrono", options_list |-> <<>>,
     status |-> None, image_url |-> None, dealer_name |-> None]

StorageAlts ==
    [source |-> {"autoscout24"},
     source_id |-> {"xyz789"},
     url |-> {"https://example.com/1?ref=2"},
     title |-> {"Porsche 911 Carrera 4 GTS Coupe"},
     price_eur |-> {None, Some(0), Some(135000)},
     mileage_km |-> {Some(20500)},
     first_registration |-> {None},
     location |-> {None, Some("None"), Some("Stuttgart")},
     accident_free |-> {None},
     porsche_approved_months |-> {Some(6)},
     options_text |-> {"Sport Chrono, BOSE"},
     status |-> {Some(""), Some("active"), Some("sold")},
     image_url |-> {Some("https://example.com/1.jpg")},
     dealer_name |-> {Some("Porsche Zentrum")}]

\* the listings that are upserted: StoredListing, as it is or with one field
\* overridden
StorageListings == Ball({StoredListing}, StorageAlts, 1)

InitStorageIdle ==
    /\ rows = EmptyDict
    /\ price_history = {}
    /\ now = 0
    /\ upserted = None
    /\ before = None
    /\ change = None
    /\ calls = 0
    /\ seen = {}
    /\ latest = EmptyDict

----------------------------------------------------------------------------
(* sources: Source._get and the fetch() of the adapters *)

\* number of URLs configured for the source
MaxUrls == 2

\* number of result pages the site has for a search: a request for a later
\* page is answered with a page without listings, or fails
MaxSitePages == 2

\* autoscout24.MAX_PAGES
MAX_PAGES == 20

\* base.py line 71: stop_after_attempt(3)
MaxAttempts == 3

\* base.py line 72: wait_exponential(min=2, max=30)
WaitMin == 2
WaitMax == 30

\* config.AppConfig.request_delay_seconds
request_delay_seconds == 4

Min(a, b) == IF a <= b THEN a ELSE b

\* tenacity wait_exponential(multiplier=1, min=2, max=30) after the n-th
\* attempt: 2^(n-1) seconds, clamped to [min, max]
wait_exponential(n) == Max(WaitMin, Min(2 ^ (n - 1), WaitMax))

\* the classes with a fetch() of their own: Source (inherited by
\* PorscheFinderSource and PorscheDeSource), MobileDeSource,
\* AutoScout24Source
Adapters == {"base", "mobile_de", "autoscout24"}

\* self.urls, the configured URLs by number
urls == [i \in 1..MaxUrls |-> i]

\* the URL requested for page p of configured URL i (autoscout24.py line
\* 147; the other adapters request the configured URL itself, p = 1)
Url(i, p) == <<i, p>>

\* What one HTTP request can be answered with. status 0: no response (a
\* connection error or timeout). For a 200: the source_ids of the vehicles
\* in the page, whether the page has one of mobile_de._BLOCKED_MARKERS,
\* whether the parser raises on it (e.g. a JSON-LD item with "name": null,
\* which Listing(...) refuses), and the numberOfPages it reports.
Answer(status, ids, blocked, malformed, pages) ==
    [status |-> status, ids |-> ids, blocked |-> blocked,
     malformed |-> malformed, numberOfPages |-> pages]

Failure(status) == Answer(status, <<>>, FALSE, FALSE, None)

Failures == {Failure(c) : c \in {0, 403, 451, 500}}

PageIds == {<<>>, <<"A">>, <<"B", "A">>}

\* the answers to a request for page p, for an adapter a
Answers(a, p) ==
    Failures
    \cup {Answer(200, <<>>, TRUE, FALSE, None),
          Answer(200, <<"A">>, FALSE, TRUE, None)}
    \cup {Answer(200, ids, FALSE, FALSE, n) :
              ids \in (IF p <= MaxSitePages THEN PageIds ELSE {<<>>}),
              n \in (IF a = "autoscout24"
                     THEN {None, Some(MaxSitePages)} ELSE {None})}

\* the page of a site that answers every ?page=N with the same vehicle
Endless == Answer(200, <<"A">>, FALSE, FALSE, None)

\* the numberOfPages a page of AutoScout24 reports: none, 0 or the number
\* of pages of the site
PageCounts == {None, Some(0), Some(MaxSitePages)}

\* the answers to AutoScout24Source's request for page p, for its
\* pagination: a failure that is retried and one that is not, a page that
\* the parser raises on, a page without vehicles and a page with one. The
\* first page that the site does not have (autoscout24.py line 147 asks
\* for it) is answered in any of these ways, the ones after it by the
\* endless site only.
PagedAnswers(p) ==
    IF p > MaxSitePages + 1 THEN {Endless}
    ELSE {Failure(403), Failure(500),
          Answer(200, <<"A">>, FALSE, TRUE, None)}
         \cup {Answer(200, ids, FALSE, FALSE, n) :
                   ids \in {<<>>, <<"A">>}, n \in PageCounts}

\* resp.raise_for_status() passes
Ok(out) == out.status = 200

\* mutant of _should_retry: a 403 is retried like any other failure
_should_retry_403(out) == out.status # 451

\* Source._should_retry, on the exception of a failed attempt: an HTTPError
\* with a response of status 403 or 451 is not retried, all else is
_should_retry(out) == out.status \notin {403, 451}

\* mutant of Retries: a fourth attempt is made
Retries_Four(out, n) == _should_retry(out) /\ n < MaxAttempts + 1

\* the @retry of Source._get, base.py lines 70-74, after the n-th attempt
\* failed with out: another attempt follows
Retries(out, n) == _should_retry(out) /\ n < MaxAttempts

\* mobile_de._is_blocked(resp.text)
_is_blocked(out) == Ok(out) /\ out.blocked

InitFetchIdle ==
    /\ adapter = "base"
    /\ has_curl_cffi = FALSE
    /\ pc = "done"
    /\ url_i = 0
    /\ page = 0
    /\ attempt = 0
    /\ tries = <<>>
    /\ get_result = "none"
    /\ all_listings = <<>>
    /\ seen_ids = {}
    /\ idle = 0
    /\ blocked_urls = {}
    /\ after_block = {}
    /\ fetched = [u \in {} |-> None]

----------------------------------------------------------------------------
(* cli.run and notify *)

\* number of sources in config.yaml
MaxSources == 2

\* number of runs on one database
MaxRuns == 2

\* sources.SOURCE_REGISTRY
SOURCE_REGISTRY == {"porsche_finder", "mobile_de", "autoscout24", "porsche_de"}

\* config.SourceConfig values: a source that is fetched, one that is not
\* enabled, one without URLs, one that get_source does not know
SourceConfigs ==
    {[name |-> "mobile_de", enabled |-> TRUE, urls |-> <<1>>],
     [name |-> "autoscout24", enabled |-> TRUE, urls |-> <<1>>],
     [name |-> "porsche_finder", enabled |-> FALSE, urls |-> <<1>>],
     [name |-> "porsche_de", enabled |-> TRUE, urls |-> <<>>],
     [name |-> "ebay", enabled |-> TRUE, urls |-> <<1>>]}

\* config.Config: cfg.sources is a dict, so no name comes twice; of
\* cfg.notifications.telegram, whether it is enabled with a chat_id
Configs ==
    {[sources |-> ss, telegram |-> tg] :
        ss \in {q \in [1..MaxSources -> SourceConfigs] :
                  \A j, k \in 1..MaxSources :
                      j # k => q[j].name # q[k].name},
        tg \in BOOLEAN}

\* the vehicles a source lists: one that matches BaseCriteria, the same at
\* a lower price, and one that is not accident-free
Car(name) == [BaseListing EXCEPT !.source = name]
Cheaper(name) == [Car(name) EXCEPT !.price_eur = Some(135000)]
Crashed(name) ==
    [Car(name) EXCEPT !.source_id = "2", !.accident_free = Some(FALSE)]

\* how source.fetch() can end for the source called name: with a list of
\* listings, or, for MobileDeSource, with the exception of _parse_html
\* (CurlGet, pc = "raised")
FetchOutcomes(name) ==
    {[raised |-> FALSE, listings |-> ls] :
        ls \in {<<>>, <<Car(name)>>, <<Cheaper(name), Crashed(name)>>}}
    \cup (IF name = "mobile_de"
          THEN {[raised |-> TRUE, listings |-> <<>>]} ELSE {})

\* the listings a run handles
RunListings ==
    UNION {{Car(sc.name), Cheaper(sc.name), Crashed(sc.name)} :
              sc \in SourceConfigs}

\* evaluate(l, c) for the listings and the criteria of a run, computed once
EvaluatedRun == [l \in RunListings |-> evaluate(l, BaseCriteria)]

\* run, line 67: fr = evaluate(listing, criteria)
Evaluated(l, c) ==
    IF c = BaseCriteria /\ l \in RunListings THEN EvaluatedRun[l]
    ELSE evaluate(l, c)

\* mutant of should_notify: a rejected listing notifies too
should_notify_Any(fr, info) == info.is_new \/ info.is_changed

\* notify.should_notify
should_notify(fr, info) ==
    IF ~fr.is_match THEN FALSE ELSE info.is_new \/ info.is_changed

\* how a send_telegram call can end: without a request (no
\* TELEGRAM_BOT_TOKEN), with the message sent, or with a
\* requests.RequestException, which it logs
Sends == {"no_token", "sent", "failed"}

InitRunIdle ==
    /\ run_pc = "idle"
    /\ cfg = [sources |-> <<>>, telegram |-> FALSE]
    /\ src_i = 0
    /\ pending = <<>>
    /\ results = <<>>
    /\ changes = <<>>
    /\ notified = <<>>
    /\ report = None
    /\ failures = {}
    /\ runs = 0

----------------------------------------------------------------------------
(* sources: the response parsers *)

\* number of <script type="application/ld+json"> tags in a page
MaxScripts == 2

\* the parsers: AutoScout24Source._parse_response and
\* _parse_response_with_pages (its listings), PorscheFinderSource._parse_html,
\* MobileDeSource._parse_soup
Parsers == {"autoscout24", "autoscout24_pages", "porsche_finder", "mobile_de"}

\* A JSON text in a page: whether json.loads accepts it, and its items. An
\* item is Some(id) if the parser makes a Listing with that source_id of it,
\* None if the parser skips it (no id, not a dict, another @type, or a
\* failure that the item parser catches). Items on which the parser raises
\* are the malformed answers of the fetch model.
Blob(valid, items) == [valid |-> valid, items |-> items]

\* the item lists of a JSON text or of the listing cards, the ids named
\* after where they are in the page
ItemLists(id) == {<<>>, <<None>>, <<None, Some(id)>>}

\* the k-th JSON-LD script of a page: invalid JSON, an item that is
\* skipped, or a vehicle
ScriptKinds == {"invalid", "skipped", "vehicle"}
Script(kind, k) ==
    IF kind = "invalid" THEN Blob(FALSE, <<>>)
    ELSE IF kind = "skipped" THEN Blob(TRUE, <<None>>)
    ELSE Blob(TRUE, <<Some("L" \o NatToStr(k))>>)

\* the pages: the __NEXT_DATA__ script (None: no such tag) and its
\* pageProps listings, the JSON-LD scripts in document order, a script with
\* window.__INITIAL_STATE__ (None: none), the listing cards
Pages ==
    {[next_data |-> nd, json_ld |-> [k \in 1..n |-> Script(kinds[k], k)],
      script_json |-> sj, cards |-> cards] :
        nd \in {None, Some(Blob(FALSE, <<>>))}
               \cup {Some(Blob(TRUE, items)) : items \in ItemLists("N")},
        n \in 0..MaxScripts,
        kinds \in [1..MaxScripts -> ScriptKinds],
        sj \in {None, Some(Blob(TRUE, <<None>>)),
                Some(Blob(TRUE, <<Some("S")>>))},
        cards \in ItemLists("C")}

IsListing(item) == ~IsNone(item)

\* the listings made of a list of items, by source_id, in order
ListingsOf(items) ==
    LET kept == SelectSeq(items, IsListing)
    IN  [k \in 1..Len(kept) |-> Val(kept[k])]

\* raw_listings of the __NEXT_DATA__ script, None if the tag is missing or
\* json.loads raises JSONDecodeError (autoscout24.py lines 208-213,
\* porsche_finder.py lines 250-254)
raw_listings(doc) ==
    IF ~IsNone(doc.next_data) /\ Val(doc.next_data).valid
    THEN Some(Val(doc.next_data).items)
    ELSE None

\* the JSON-LD loop of AutoScout24Source._parse_response (lines 233-263) and
\* of PorscheFinderSource._parse_html (lines 284-303): the results of the
\* first script that has any; a script that is no JSON is passed over
RECURSIVE FirstScript(_)
FirstScript(scripts) ==
    IF scripts = <<>> THEN <<>>
    ELSE IF Head(scripts).valid /\ ListingsOf(Head(scripts).items) # <<>>
    THEN ListingsOf(Head(scripts).items)
    ELSE FirstScript(Tail(scripts))

\* MobileDeSource._extract_json_ld without its last line: the results of
\* all scripts together
RECURSIVE AllScripts(_)
AllScripts(scripts) ==
    IF scripts = <<>> THEN <<>>
    ELSE (IF Head(scripts).valid THEN ListingsOf(Head(scripts).items)
          ELSE <<>>)
         \o AllScripts(Tail(scripts))

\* the listings of the window.__INITIAL_STATE__ script (porsche_finder.py
\* lines 305-323)
ScriptJson(doc) ==
    IF ~IsNone(doc.script_json) /\ Val(doc.script_json).valid
    THEN ListingsOf(Val(doc.script_json).items)
    ELSE <<>>

\* AutoScout24Source._parse_response: a non-empty raw_listings is answered
\* with the listings made of it, however many
_parse_response(doc) ==
    LET raw == raw_listings(doc)
    IN  IF ~IsNone(raw) /\ Val(raw) # <<>> THEN ListingsOf(Val(raw))
        ELSE FirstScript(doc.json_ld)

\* AutoScout24Source._parse_response_with_pages, the listings it returns:
\* a raw_listings list is answered with the listings made of it
_parse_response_with_pages(doc) ==
    LET raw == raw_listings(doc)
    IN  IF ~IsNone(raw) THEN ListingsOf(Val(raw))
        ELSE _parse_response(doc)

\* PorscheFinderSource._parse_html: every strategy but the last returns
\* only `if listings`
_parse_html(doc) ==
    LET raw == raw_listings(doc)
    IN  IF ~IsNone(raw) /\ ListingsOf(Val(raw)) # <<>>
        THEN ListingsOf(Val(raw))
        ELSE IF FirstScript(doc.json_ld) # <<>>
        THEN FirstScript(doc.json_ld)
        ELSE IF ScriptJson(doc) # <<>> THEN ScriptJson(doc)
        ELSE ListingsOf(doc.cards)

\* MobileDeSource._parse_soup
_parse_soup(doc) ==
    IF AllScripts(doc.json_ld) # <<>> THEN AllScripts(doc.json_ld)
    ELSE ListingsOf(doc.cards)

\* what parser p returns for a page
Parse(p, doc) ==
    IF p = "autoscout24" THEN _parse_response(doc)
    ELSE IF p = "autoscout24_pages" THEN _parse_response_with_pages(doc)
    ELSE IF p = "porsche_finder" THEN _parse_html(doc)
    ELSE _parse_soup(doc)

InitParseIdle ==
    /\ parser = "mobile_de"
    /\ html = [next_data |-> None, json_ld |-> <<>>, script_json |-> None,
               cards |-> <<>>]
    /\ parsed = Some(<<>>)

----------------------------------------------------------------------------
(* The filter engine: one evaluate call on an input *)

InitFilter ==
    /\ \E in \in FilterInputs : listing = in[1] /\ criteria = in[2]
    /\ result = None
    /\ InitStorageIdle
    /\ InitFetchIdle
    /\ InitRunIdle
    /\ InitParseIdle

\* filters.evaluate(listing, criteria)
Evaluate ==
    /\ IsNone(result)
    /\ result' = Some(evaluate(listing, criteria))
    /\ UNCHANGED <<listing, criteria, storageVars, fetchVars, runVars,
                   parseVars>>

NextFilter == Evaluate

SpecFilter == InitFilter /\ [][NextFilter]_vars

Done == ~IsNone(result)
Res == Val(result)

----------------------------------------------------------------------------
(* The change tracker: a run of upsert_and_diff calls on one store *)

InitStorage ==
    /\ listing = BaseListing
    /\ criteria = BaseCriteria
    /\ result = None
    /\ InitStorageIdle
    /\ InitFetchIdle
    /\ InitRunIdle
    /\ InitParseIdle

\* Storage.upsert_and_diff(l), lines 120-130 and 161-167 or line 118: the
\* ChangeInfo returned
Diff(l) ==
    IF Key(l) \notin DOMAIN rows THEN NewInfo
    ELSE DiffInfo(rows[Key(l)], l, _fingerprint(l))

\* Storage.upsert_and_diff(l), the clock reading t at the call: what it
\* does to the database and what it returns
Upsert(l, t) ==
    LET fp == _fingerprint(l)
        key == Key(l)
    IN  /\ calls' = calls + 1
        /\ now' = t
        /\ upserted' = Some(l)
        /\ seen' = seen \cup {key}
        /\ latest' = [k \in DOMAIN latest \cup {key} |->
                          IF k # key THEN latest[k]
                          ELSE IF key \in DOMAIN latest
                          THEN [first |-> latest[key].first, listing |-> l,
                                previous |-> Some(latest[key].listing)]
                          ELSE [first |-> t, listing |-> l,
                                previous |-> None]]
        /\ before' = Some([rows |-> rows, price_history |-> price_history])
        /\ price_history' = RecordPrice(price_history, l, t)
        /\ rows' = WithRow(rows, key,
                           IF key \notin DOMAIN rows
                           THEN InsertedRow(l, fp, t)
                           ELSE UpdatedRow(rows[key], l, fp, t))
        /\ change' = Some(Diff(l))

\* a Storage.upsert_and_diff(l) call
UpsertAndDiff(l, t) ==
    /\ calls < MaxUpserts
    /\ Upsert(l, t)
    /\ UNCHANGED <<filterVars, fetchVars, runVars, parseVars>>

\* the calls of a run: any listing, in the second of the previous call or in
\* the next one (timestamps have a granularity of one second)
NextStorage ==
    \E l \in StorageListings : \E t \in {now, now + 1} : UpsertAndDiff(l, t)

SpecStorage == InitStorage /\ [][NextStorage]_vars

\* Storage.count
count == Cardinality(DOMAIN rows)

----------------------------------------------------------------------------
(* The source adapters: one fetch() call, a step for each HTTP request *)

InitFetch ==
    /\ listing = BaseListing
    /\ criteria = BaseCriteria
    /\ result = None
    /\ InitStorageIdle
    /\ adapter \in Adapters
    /\ has_curl_cffi \in (IF adapter = "mobile_de" THEN BOOLEAN ELSE {FALSE})
    /\ pc = "url"
    /\ url_i = 0
    /\ page = 0
    /\ attempt = 0
    /\ tries = <<>>
    /\ get_result = "none"
    /\ all_listings = <<>>
    /\ seen_ids = {}
    /\ idle = 0
    /\ blocked_urls = {}
    /\ after_block = {}
    /\ fetched = [u \in {} |-> None]
    /\ InitRunIdle
    /\ InitParseIdle

\* the URL in work
ReqUrl == Url(url_i, page)

\* the elements of a list
Range(seq) == {seq[k] : k \in 1..Len(seq)}

\* AutoScout24Source.fetch, lines 156-160: the listings of a page whose
\* source_id is not in seen, each source_id once, in page order
RECURSIVE Unseen(_, _)
Unseen(ids, ids_seen) ==
    IF ids = <<>> THEN <<>>
    ELSE IF Head(ids) \in ids_seen THEN Unseen(Tail(ids), ids_seen)
    ELSE <<Head(ids)>> \o Unseen(Tail(ids), ids_seen \cup {Head(ids)})

\* the blocks recognised on the URL in work, through backend via, when the
\* answer is out: a status of 403 or 451, or, for mobile.de, a block marker
Blocks(out, via) ==
    IF out.status \in {403, 451} \/ (adapter = "mobile_de" /\ _is_blocked(out))
    THEN {[url |-> ReqUrl, via |-> via]}
    ELSE {}

\* an HTTP request for the URL in work goes out and is answered with out
Requested(out, via) ==
    /\ after_block' = after_block \cup {b \in blocked_urls : b.url = ReqUrl}
    /\ blocked_urls' = blocked_urls \cup Blocks(out, via)

\* the handling of the URL in work ends: ok whether it was fetched and
\* parsed, ids what the parser returned, added what all_listings gains;
\* fetch goes on with page next_page (0: with the next configured URL)
Ends(ok, ids, added, next_page) ==
    /\ fetched' = [u \in DOMAIN fetched \cup {ReqUrl} |->
                      IF u = ReqUrl THEN [ok |-> ok, ids |-> ids]
                      ELSE fetched[u]]
    /\ all_listings' = all_listings \o added
    /\ seen_ids' = IF adapter = "autoscout24"
                   THEN seen_ids \cup Range(added) ELSE seen_ids
    /\ page' = next_page
    /\ pc' = "url"
    /\ idle' = 0

\* the except clause of the adapter's fetch: base.py lines 99-100,
\* mobile_de.py lines 244-249, autoscout24.py lines 170-172 (break)
Caught == Ends(FALSE, <<>>, <<>>, 0)

\* AutoScout24Source.fetch, line 167: the pagination of the URL stops
LastPage(out) ==
    \/ out.ids = <<>>
    \/ /\ TruthyInt(out.numberOfPages)
       /\ page >= Val(out.numberOfPages)

\* the body of the adapter's try block once _get has returned out
Received(out) ==
    IF adapter = "mobile_de" /\ _is_blocked(out) THEN Caught
    ELSE IF out.malformed THEN Caught
    ELSE IF adapter = "autoscout24"
    THEN Ends(TRUE, out.ids, Unseen(out.ids, seen_ids),
              IF LastPage(out) THEN 0 ELSE page + 1)
    ELSE Ends(TRUE, out.ids, out.ids, 0)

\* mutant of MorePages: the cap lets one page more through
MorePages_OneMore == adapter = "autoscout24" /\ page \in 1..(MAX_PAGES + 1)

\* AutoScout24Source.fetch: the while loop of the URL in work goes on
MorePages == adapter = "autoscout24" /\ page \in 1..MAX_PAGES

\* the loop head of fetch: the sleep between requests, then the next URL
\* (base.py lines 89-95, mobile_de.py lines 217-224, autoscout24.py lines
\* 144-152)
NextUrl ==
    /\ pc = "url"
    /\ MorePages \/ url_i < Len(urls)
    /\ url_i' = IF MorePages THEN url_i ELSE url_i + 1
    /\ page' = IF MorePages THEN page ELSE 1
    /\ idle' = IF IF adapter = "autoscout24" THEN all_listings # <<>>
                                             ELSE url_i > 0
               THEN idle + request_delay_seconds ELSE idle
    /\ attempt' = 0
    /\ tries' = <<>>
    /\ get_result' = "none"
    /\ pc' = IF adapter = "mobile_de" /\ has_curl_cffi THEN "curl" ELSE "get"
    /\ UNCHANGED <<adapter, has_curl_cffi, all_listings, seen_ids,
                   blocked_urls, after_block, fetched>>
    /\ UNCHANGED <<filterVars, storageVars, runVars, parseVars>>

\* fetch returns all_listings
Return ==
    /\ pc = "url"
    /\ ~(MorePages \/ url_i < Len(urls))
    /\ pc' = "done"
    /\ UNCHANGED <<adapter, has_curl_cffi, url_i, page, attempt, tries,
                   get_result, all_listings, seen_ids, idle, blocked_urls,
                   after_block, fetched>>
    /\ UNCHANGED <<filterVars, storageVars, runVars, parseVars>>

\* MobileDeSource._fetch_with_curl_cffi and lines 224-229 of fetch: the
\* request through curl_cffi. A 200 without block marker is parsed by
\* _parse_html, outside any try; anything else falls back to _get.
CurlGet(out) ==
    /\ pc = "curl"
    /\ Requested(out, "curl_cffi")
    /\ IF Ok(out) /\ ~_is_blocked(out)
       THEN IF out.malformed
            THEN /\ pc' = "raised"
                 /\ idle' = 0
                 /\ UNCHANGED <<page, all_listings, seen_ids, fetched>>
            ELSE Ends(TRUE, out.ids, out.ids, 0)
       ELSE /\ pc' = "get"
            /\ idle' = 0
            /\ UNCHANGED <<page, all_listings, seen_ids, fetched>>
    /\ UNCHANGED <<adapter, has_curl_cffi, url_i, attempt, tries, get_result>>
    /\ UNCHANGED <<filterVars, storageVars, runVars, parseVars>>

\* one attempt of Source._get (base.py lines 70-85) and what follows it
\* without a further request: the backoff wait before the next attempt, or
\* the rest of the adapter's try block, or its except clause
SessionGet(out) ==
    /\ pc = "get"
    /\ Requested(out, "session")
    /\ attempt' = attempt + 1
    /\ tries' = Append(tries, out)
    /\ IF Ok(out) THEN get_result' = "returned" /\ Received(out)
       ELSE IF Retries(out, attempt + 1)
       THEN /\ pc' = "get"
            /\ get_result' = "none"
            /\ idle' = wait_exponential(attempt + 1)
            /\ UNCHANGED <<page, all_listings, seen_ids, fetched>>
       ELSE get_result' = "raised" /\ Caught
    /\ UNCHANGED <<adapter, has_curl_cffi, url_i>>
    /\ UNCHANGED <<filterVars, storageVars, runVars, parseVars>>

NextFetch ==
    \/ NextUrl
    \/ Return
    \/ \E out \in Answers(adapter, page) : CurlGet(out)
    \/ \E out \in Answers(adapter, page) : SessionGet(out)

SpecFetch == InitFetch /\ [][NextFetch]_vars

\* AutoScout24Source.fetch alone, up to MAX_PAGES pages of each URL. The
\* interpreter runs fetch to its end and every request is answered or
\* times out (base.py line 77), so a step that can be taken is taken.
InitAutoScout24 == InitFetch /\ adapter = "autoscout24"

NextAutoScout24 ==
    \/ NextUrl
    \/ Return
    \/ \E out \in PagedAnswers(page) : SessionGet(out)

SpecAutoScout24 ==
    InitAutoScout24 /\ [][NextAutoScout24]_vars /\ WF_vars(NextAutoScout24)

----------------------------------------------------------------------------
(* cli.run: runs of the monitor on one database, a step for each source    *)
(* and each listing                                                        *)

InitRun ==
    /\ listing = BaseListing
    /\ criteria = BaseCriteria
    /\ result = None
    /\ InitStorageIdle
    /\ InitFetchIdle
    /\ run_pc = "start"
    /\ cfg \in Configs
    /\ src_i = 0
    /\ pending = <<>>
    /\ results = <<>>
    /\ changes = <<>>
    /\ notified = <<>>
    /\ report = None
    /\ failures = {}
    /\ runs = 1
    /\ InitParseIdle

\* run, lines 31-40: Config.from_yaml and load_criteria succeed (ok) or one
\* of them raises
LoadConfig(ok) ==
    /\ run_pc = "start"
    /\ run_pc' = IF ok THEN "loop" ELSE "aborted"
    /\ failures' = IF ok THEN {} ELSE {"config"}
    /\ src_i' = 0
    /\ pending' = <<>>
    /\ results' = <<>>
    /\ changes' = <<>>
    /\ UNCHANGED <<cfg, notified, report, runs>>
    /\ UNCHANGED <<filterVars, storageVars, fetchVars, parseVars>>

\* run, lines 43-64: the next source of cfg.sources; it is skipped, or
\* source.fetch() is called, with no try around it
StartSource ==
    /\ run_pc = "loop"
    /\ pending = <<>>
    /\ src_i < Len(cfg.sources)
    /\ src_i' = src_i + 1
    /\ LET sc == cfg.sources[src_i + 1]
       IN  IF ~sc.enabled \/ sc.urls = <<>> \/ sc.name \notin SOURCE_REGISTRY
           THEN UNCHANGED <<run_pc, pending, failures>>
           ELSE \E out \in FetchOutcomes(sc.name) :
                    IF out.raised
                    THEN /\ run_pc' = "aborted"
                         /\ failures' = failures \cup {"fetch"}
                         /\ UNCHANGED pending
                    ELSE /\ pending' = out.listings
                         /\ UNCHANGED <<run_pc, failures>>
    /\ UNCHANGED <<cfg, results, changes, notified, report, runs>>
    /\ UNCHANGED <<filterVars, storageVars, fetchVars, parseVars>>

\* run, lines 66-76: the next listing of the source. db_ok is whether
\* sqlite3 carries out the statements of upsert_and_diff (it raises
\* sqlite3.Error otherwise), sent how send_telegram ends if it is called.
\* The clock stands while a run handles listings and moves between runs.
ProcessListing ==
    /\ run_pc = "loop"
    /\ pending # <<>>
    /\ LET l == Head(pending)
           fr == Evaluated(l, criteria)
           info == Diff(l)
       IN  /\ listing' = l
           /\ result' = Some(fr)
           /\ \E db_ok \in BOOLEAN :
                 IF ~db_ok
                 THEN /\ run_pc' = "aborted"
                      /\ failures' = failures \cup {"upsert"}
                      /\ UNCHANGED <<storageVars, pending, results, changes,
                                     notified>>
                 ELSE /\ Upsert(l, runs)
                      /\ results' = Append(results, fr)
                      /\ changes' = Append(changes, info)
                      /\ pending' = Tail(pending)
                      /\ IF should_notify(fr, info) /\ cfg.telegram
                         THEN \E sent \in Sends :
                                /\ notified' =
                                      Append(notified,
                                             [key |-> Key(l), run |-> runs,
                                              at |-> Len(results) + 1])
                                /\ failures' =
                                      IF sent = "failed"
                                      THEN failures \cup {"notification"}
                                      ELSE failures
                         ELSE UNCHANGED <<notified, failures>>
                      /\ UNCHANGED run_pc
    /\ UNCHANGED <<criteria, cfg, src_i, report, runs>>
    /\ UNCHANGED <<fetchVars, parseVars>>

\* run, lines 78-80: render_md and write_report
WriteReport ==
    /\ run_pc = "loop"
    /\ pending = <<>>
    /\ src_i = Len(cfg.sources)
    /\ report' = Some([run |-> runs, results |-> results,
                       changes |-> changes])
    /\ run_pc' = "finished"
    /\ UNCHANGED <<cfg, src_i, pending, results, changes, notified,
                   failures, runs>>
    /\ UNCHANGED <<filterVars, storageVars, fetchVars, parseVars>>

\* the monitor is started again on the same database and configuration
Rerun ==
    /\ run_pc \in {"finished", "aborted"}
    /\ runs < MaxRuns
    /\ runs' = runs + 1
    /\ run_pc' = "start"
    /\ UNCHANGED <<cfg, src_i, pending, results, changes, notified, report,
                   failures>>
    /\ UNCHANGED <<filterVars, storageVars, fetchVars, parseVars>>

NextRun ==
    \/ \E ok \in BOOLEAN : LoadConfig(ok)
    \/ StartSource
    \/ ProcessListing
    \/ WriteReport
    \/ Rerun

SpecRun == InitRun /\ [][NextRun]_vars

----------------------------------------------------------------------------
(* The response parsers: one call of a parser on a page *)

InitParse ==
    /\ listing = BaseListing
    /\ criteria = BaseCriteria
    /\ result = None
    /\ InitStorageIdle
    /\ InitFetchIdle
    /\ InitRunIdle
    /\ parser \in Parsers
    /\ html \in Pages
    /\ parsed = None

\* the parser is called on the page
ParseResponse ==
    /\ IsNone(parsed)
    /\ parsed' = Some(Parse(parser, html))
    /\ UNCHANGED <<parser, html>>
    /\ UNCHANGED <<filterVars, storageVars, fetchVars, runVars>>

NextParse == ParseResponse

SpecParse == InitParse /\ [][NextParse]_vars

----------------------------------------------------------------------------
(* Properties. SpecFilter: C1-C3, C7-C10, C19-C23. SpecStorage: C4-C6,     *)
(* C11-C13, C24-C26. SpecFetch: C14-C17, C27. SpecRun: C18, C29.           *)
(* SpecParse: C28. SpecAutoScout24: C30.                                   *)

\* some reason of the result has the given text in it
HasReason(r, part) == \E i \in 1..Len(r.reasons) : Contains(part, r.reasons[i])

\* C1: a listing whose mileage_km is present and greater than
\* criteria.mileage_km_max (50000 when the key is absent) is not a match and
\* has a reason that names the mileage excess.
C1_MileageOverMaxRejects ==
    Done =>
        LET cap == IF IsNone(criteria.mileage_km_max) THEN 50000
                   ELSE Val(criteria.mileage_km_max)
        IN  (~IsNone(listing.mileage_km) /\ Val(listing.mileage_km) > cap)
            => /\ Res.is_match = FALSE
               /\ HasReason(Res, "mileage " \o IntToStr(Val(listing.mileage_km))
                                 \o " km > " \o IntToStr(cap) \o " km")

\* C1 witness: a mileage of 50001 was evaluated against criteria without
\* mileage_km_max and rejected
C1_Witness ==
    /\ Done
    /\ listing.mileage_km = Some(50001)
    /\ IsNone(criteria.mileage_km_max)
    /\ Res.is_match = FALSE

\* C2: a listing with accident_free == False is not a match and has the
\* not-accident-free reason, whatever its other fields and the criteria.
C2_NotAccidentFreeRejects ==
    (Done /\ listing.accident_free = Some(FALSE))
    => /\ Res.is_match = FALSE
       /\ HasReason(Res, "not accident-free")

\* C2 witness: a listing that fails no other check was rejected for
\* accident_free == False alone
C2_Witness ==
    /\ Done
    /\ listing.accident_free = Some(FALSE)
    /\ Res.reasons = <<"not accident-free (Unfallfrei required)">>

\* the searchable text of l has no keyword of at least one hard must-have
LacksHardMustHave(l) ==
    LET t == Lower(SearchText(l))
    IN  \E i \in 1..Len(HARD_MUST_HAVE_KEYWORDS) :
            \A k \in HARD_MUST_HAVE_KEYWORDS[i].keywords : ~Contains(k, t)

\* C3: for a listing whose searchable text lacks a hard must-have, evaluate
\* adds no 'missing required' reason when len(options_text) <= 20, and adds
\* one (so the listing is no match) when len(options_text) > 20.
C3_TitleOnlyLeniency ==
    (Done /\ LacksHardMustHave(listing))
    => /\ Len(listing.options_text) <= 20
            => ~HasReason(Res, "missing required")
       /\ Len(listing.options_text) > 20
            => HasReason(Res, "missing required") /\ Res.is_match = FALSE

\* C3 witness: an options_text of exactly 20 characters without hard
\* must-haves was evaluated and the listing matched
C3_Witness ==
    /\ Done
    /\ LacksHardMustHave(listing)
    /\ Len(listing.options_text) = 20
    /\ Res.is_match

\* C3 second witness: the same with 21 characters was rejected for it alone
C3_WitnessRich ==
    /\ Done
    /\ LacksHardMustHave(listing)
    /\ Len(listing.options_text) = 21
    /\ Len(Res.reasons) = 1

\* the last upsert_and_diff call: whether there was one, its argument, the
\* tables before it, the ChangeInfo it returned, whether its key had no row
Called == ~IsNone(change)
Arg == Val(upserted)
Before == Val(before)
Info == Val(change)
WasNew == Key(Arg) \notin DOMAIN Before.rows

\* C4: upsert_and_diff on a key with no stored row returns is_new = true,
\* is_changed = false, empty changes and null previous_price and
\* previous_status, inserts exactly one row, for that key, and appends one
\* price-history entry iff the listing's price is known.
C4_UnseenKeyIsNew ==
    (Called /\ WasNew)
    => /\ Info.is_new = TRUE
       /\ Info.is_changed = FALSE
       /\ DOMAIN Info.changes = {}
       /\ IsNone(Info.previous_price)
       /\ IsNone(Info.previous_status)
       /\ DOMAIN rows = DOMAIN Before.rows \cup {Key(Arg)}
       /\ \A k \in DOMAIN Before.rows : rows[k] = Before.rows[k]
       /\ Before.price_history \subseteq price_history
       /\ price_history \ Before.price_history =
              IF IsNone(Arg.price_eur) THEN {}
              ELSE {[source |-> Arg.source, source_id |-> Arg.source_id,
                     recorded |-> now, price_eur |-> Val(Arg.price_eur)]}

\* C4 witness: a second key was inserted, with a price of 0, beside a row
\* that has price history
C4_Witness ==
    /\ Called
    /\ WasNew
    /\ Arg.price_eur = Some(0)
    /\ Before.price_history # {}
    /\ Info.is_new

\* C5: when the stored snapshot of a key is the listing L (the last upsert of
\* the key was of L), an upsert of a listing identical to L returns
\* is_new = false, is_changed = false and empty changes.
C5_IdenticalUpsertNoChange ==
    (Called /\ ~WasNew /\ Before.rows[Key(Arg)].extras = Arg)
    => /\ Info.is_new = FALSE
       /\ Info.is_changed = FALSE
       /\ DOMAIN Info.changes = {}

\* C5 witness: a listing was upserted a second time after its key had first
\* been seen with other content
C5_Witness ==
    /\ Called
    /\ ~WasNew
    /\ Before.rows[Key(Arg)].extras = Arg
    /\ Arg.status = Some("sold")
    /\ Before.rows[Key(Arg)].first_seen < Before.rows[Key(Arg)].last_seen
    /\ Info.is_changed = FALSE

\* C6: when the stored row of a key has a known price p_old and the upserted
\* listing differs from the stored snapshot only in price_eur = p_new, known
\* and other than p_old, upsert_and_diff returns is_new = false,
\* is_changed = true, changes["price_eur"] == (p_old, p_new) and
\* previous_price == p_old.
C6_PriceChangeDetected ==
    (Called /\ ~WasNew)
    => LET cur == Before.rows[Key(Arg)]
       IN  (/\ ~IsNone(cur.price_eur)
            /\ ~IsNone(Arg.price_eur)
            /\ Arg.price_eur # cur.price_eur
            /\ Arg = [cur.extras EXCEPT !.price_eur = Arg.price_eur])
           => /\ Info.is_new = FALSE
              /\ Info.is_changed = TRUE
              /\ "price_eur" \in DOMAIN Info.changes
              /\ Info.changes["price_eur"] =
                     <<Val(cur.price_eur), Val(Arg.price_eur)>>
              /\ Info.previous_price = cur.price_eur

\* C6 witness: a key stored at 140000 was upserted at 135000, nothing else
\* differing
C6_Witness ==
    /\ Called
    /\ ~WasNew
    /\ Before.rows[Key(Arg)].price_eur = Some(140000)
    /\ Arg = [Before.rows[Key(Arg)].extras EXCEPT !.price_eur = Some(135000)]
    /\ Info.is_changed

\* C7 (as claimed): a listing whose title contains "992.2" has the reason
\* 'not 992.1 generation'; a listing whose title contains "992.1", or "992"
\* and none of 991/997/996/964, does not have it.
C7_TitleDecidesGeneration ==
    Done =>
        /\ Contains("992.2", listing.title)
             => HasReason(Res, "not 992.1 generation")
        /\ (\/ Contains("992.1", listing.title)
            \/ /\ Contains("992", listing.title)
               /\ ~Contains("992.2", listing.title)
               /\ \A old \in {"991", "997", "996", "964"} :
                      ~Contains(old, listing.title))
             => ~HasReason(Res, "not 992.1 generation")

\* C8: the FilterResult has is_match == (reasons is empty).
C8_MatchIffNoReasons ==
    Done => (Res.is_match <=> Len(Res.reasons) = 0)

\* C8 witness: a result with exactly one reason, and so no match
C8_Witness ==
    /\ Done
    /\ Len(Res.reasons) = 1
    /\ Res.is_match = FALSE

\* the locations the compared listing takes
Locations == ListingAlts.location \cup {BaseListing.location}

\* location loc contains the entry e of geo_priority, case-insensitively
LocationHas(loc, e) == ~IsNone(loc) /\ Contains(Lower(e), Lower(Val(loc)))

\* C9: of two listings that differ only in location, one containing
\* geo_priority[0] and the other no entry of geo_priority, the first has the
\* strictly greater score, and both have the same is_match and reasons.
C9_GeoMatchRanksHigher ==
    (/\ Done
     /\ ~IsNone(criteria.geo_priority)
     /\ Len(Val(criteria.geo_priority)) > 0
     /\ LocationHas(listing.location, Val(criteria.geo_priority)[1]))
    => \A loc \in Locations :
           (\A i \in 1..Len(Val(criteria.geo_priority)) :
                ~LocationHas(loc, Val(criteria.geo_priority)[i]))
           => LET far == evaluate([listing EXCEPT !.location = loc], criteria)
              IN  /\ Res.score > far.score
                  /\ Res.is_match = far.is_match
                  /\ Res.reasons = far.reasons

\* C9 witness: a listing in "Munich" was evaluated against a geo_priority
\* whose first entry is "munich"
C9_Witness ==
    /\ Done
    /\ listing.location = Some("Munich")
    /\ ~IsNone(criteria.geo_priority)
    /\ Val(criteria.geo_priority)[1] = "munich"
    /\ Res.is_match

\* the searchable text of l has a keyword of every option of the table
\* (all = TRUE) or of no option of the table (all = FALSE)
TextHas(l, table, all) ==
    LET t == Lower(SearchText(l))
    IN  \A i \in 1..Len(table) :
            (\E k \in table[i].keywords : Contains(k, t)) <=> all

\* the options the compared listing takes
Options ==
    (ListingAlts.options_text \cup {BaseListing.options_text})
    \X (ListingAlts.options_list \cup {BaseListing.options_list})

\* C10: of two listings that differ only in their searchable text, one with
\* a keyword of every nice-to-have and every soft must-have and the other
\* with none of them, the first has the strictly greater score.
C10_FullEquipmentRanksHigher ==
    (/\ Done
     /\ TextHas(listing, SOFT_MUST_HAVE_KEYWORDS, TRUE)
     /\ TextHas(listing, NICE_TO_HAVE_KEYWORDS, TRUE))
    => \A o \in Options :
           LET bare == [listing EXCEPT !.options_text = o[1],
                                       !.options_list = o[2]]
           IN  (/\ TextHas(bare, SOFT_MUST_HAVE_KEYWORDS, FALSE)
                /\ TextHas(bare, NICE_TO_HAVE_KEYWORDS, FALSE))
               => Res.score > evaluate(bare, criteria).score

\* C10 witness: a listing with every soft must-have and nice-to-have but no
\* hard must-have was evaluated (the compared listing may have all three
\* hard must-haves)
C10_Witness ==
    /\ Done
    /\ TextHas(listing, SOFT_MUST_HAVE_KEYWORDS, TRUE)
    /\ TextHas(listing, NICE_TO_HAVE_KEYWORDS, TRUE)
    /\ TextHas(listing, HARD_MUST_HAVE_KEYWORDS, FALSE)


\* the stored snapshot of the key of the last call, before the call
Stored == Before.rows[Key(Arg)].extras

\* C11: an upsert for an existing key of a listing that differs from the
\* stored snapshot only in url, image_url and/or dealer_name returns
\* is_changed = false and an empty changes mapping.
C11_CosmeticFieldsNoChange ==
    (/\ Called
     /\ ~WasNew
     /\ Arg = [Stored EXCEPT !.url = Arg.url, !.image_url = Arg.image_url,
                             !.dealer_name = Arg.dealer_name])
    => /\ Info.is_changed = FALSE
       /\ DOMAIN Info.changes = {}

\* C11 witness: the url and the dealer name of the upserted listing both
\* differ from the stored snapshot, and no change was reported
C11_Witness ==
    /\ Called
    /\ ~WasNew
    /\ Arg.url # Stored.url
    /\ Arg.dealer_name # Stored.dealer_name
    /\ Arg = [Stored EXCEPT !.url = Arg.url, !.dealer_name = Arg.dealer_name]
    /\ Info.is_changed = FALSE

\* C12: after any sequence of upsert_and_diff calls, table listings holds
\* one row for each distinct (source, source_id) ever upserted and no other:
\* count() is the number of distinct keys, a call deletes no row, and it
\* leaves the rows of all keys but its own unchanged.
C12_OneRowPerKey ==
    /\ DOMAIN rows = seen
    /\ count = Cardinality(seen)
    /\ \A k \in DOMAIN rows : Key(rows[k]) = k
    /\ Called =>
          /\ DOMAIN Before.rows \subseteq DOMAIN rows
          /\ \A k \in DOMAIN Before.rows \ {Key(Arg)} :
                 rows[k] = Before.rows[k]

\* C12 witness: after three calls on two keys, the last one an update beside
\* the row of the other key
C12_Witness ==
    /\ calls = 3
    /\ count = 2
    /\ ~WasNew
    /\ Cardinality(DOMAIN Before.rows) = 2

\* the price_history entry of listing l at time t
HistoryEntry(l, t) ==
    [source |-> l.source, source_id |-> l.source_id, recorded |-> t,
     price_eur |-> Val(l.price_eur)]

\* history has an entry with the primary key (source, source_id, t) of l
HasEntryAt(history, l, t) ==
    \E h \in history :
        h.source = l.source /\ h.source_id = l.source_id /\ h.recorded = t

\* C13: price_history is append-only. An upsert with a known price adds the
\* entry (source, source_id, now, price), unless an entry with the same
\* (source, source_id, now) exists, which is then kept as it is; an upsert
\* with a null price adds nothing; no call modifies or removes an entry.
C13_PriceHistoryAppendOnly ==
    Called =>
        /\ Before.price_history \subseteq price_history
        /\ price_history \ Before.price_history =
               IF \/ IsNone(Arg.price_eur)
                  \/ HasEntryAt(Before.price_history, Arg, now)
               THEN {}
               ELSE {HistoryEntry(Arg, now)}

\* C13 witness: a key was upserted at another price in the second in which
\* its price had been recorded, and the recorded price stayed
C13_Witness ==
    /\ Called
    /\ ~IsNone(Arg.price_eur)
    /\ \E h \in Before.price_history :
           /\ h.source = Arg.source /\ h.source_id = Arg.source_id
           /\ h.recorded = now
           /\ h.price_eur # Val(Arg.price_eur)
    /\ price_history = Before.price_history


\* an attempt that failed and was no bot block
Transient(out) == out.status # 200 /\ out.status \notin {403, 451}

\* C14: one call of Source._get makes at most 3 HTTP attempts. An attempt is
\* followed by another one, after a backoff wait, only if it failed without
\* being a bot block and was not the third; the third failure is raised to
\* the caller; a successful attempt ends the call.
C14_AtMostThreeAttempts ==
    /\ attempt = Len(tries)
    /\ attempt <= 3
    /\ \A k \in 1..(Len(tries) - 1) : Transient(tries[k])
    /\ (pc = "get" /\ tries # <<>>)
           => /\ Transient(tries[Len(tries)])
              /\ attempt < 3
              /\ get_result = "none"
              /\ idle > 0
    /\ get_result = "returned" => tries[Len(tries)].status = 200
    /\ get_result = "raised"
           => /\ tries[Len(tries)].status # 200
              /\ Transient(tries[Len(tries)]) => attempt = 3
    /\ (pc # "get" /\ tries # <<>>) => get_result # "none"

\* C14 witness: a _get call whose three attempts failed with a 500, no
\* response and a 500 raised to fetch
C14_Witness ==
    /\ get_result = "raised"
    /\ attempt = 3
    /\ tries[1].status = 500
    /\ tries[2].status = 0
    /\ tries[3].status = 500

\* C15 (as claimed): once a response for a URL is recognised as a bot block
\* (status 403 or 451, or for mobile.de a page with a block marker), no
\* further HTTP request is made for that URL during the fetch.
C15_NoRequestAfterBlock == after_block = {}

\* C15 (amended): once a response that Source._get received for a URL is
\* recognised as a bot block, no further HTTP request is made for that URL
\* during the fetch. (A block recognised on the response of the curl_cffi
\* backend of MobileDeSource is followed by the _get fallback for the URL.)
C15_NoRequestAfterSessionBlock ==
    /\ \A b \in after_block : b.via = "curl_cffi"
    /\ \A b \in blocked_urls :
           (b.url = ReqUrl /\ pc \in {"get", "curl"}) => b.via = "curl_cffi"

\* C15 witness: the fetch of a mobile.de source is over, it saw a block
\* marker on one URL and a 403 on another, both through the session
C15_Witness ==
    /\ pc = "done"
    /\ adapter = "mobile_de"
    /\ after_block = {}
    /\ \E b1, b2 \in blocked_urls :
           /\ b1.url # b2.url
           /\ b1.via = "session"
           /\ b2.via = "session"


\* the URLs a fetch can request, in the order in which it does
UrlOrder ==
    [k \in 1..(MaxUrls * (MaxSitePages + 1)) |->
        Url(((k - 1) \div (MaxSitePages + 1)) + 1,
            ((k - 1) % (MaxSitePages + 1)) + 1)]

\* what the parser returned for URL u; nothing if u failed or was not
\* requested
Contribution(u) ==
    IF u \in DOMAIN fetched /\ fetched[u].ok THEN fetched[u].ids ELSE <<>>

\* the contributions of the first k URLs of UrlOrder, in order
RECURSIVE Contributions(_)
Contributions(k) ==
    IF k = 0 THEN <<>>
    ELSE Contributions(k - 1) \o Contribution(UrlOrder[k])

\* the list owed by fetch(): AutoScout24Source keeps the first listing of
\* each source_id
Owed ==
    IF adapter = "autoscout24"
    THEN Unseen(Contributions(Len(UrlOrder)), {})
    ELSE Contributions(Len(UrlOrder))

\* C16 (as claimed): when fetching or parsing one URL fails, fetch does not
\* raise; the URL contributes no listings and the returned list holds the
\* listings of every URL that succeeded, in URL order.
C16_FailedUrlIsSkipped ==
    /\ pc # "raised"
    /\ pc = "done" => all_listings = Owed

\* the part of C16 that the code keeps: a fetch that returns, returns the
\* listings of the URLs that succeeded, in URL order
C16_ReturnedListIsOwed == pc = "done" => all_listings = Owed

\* C17 (as claimed): the list returned by fetch() has no two listings with
\* the same source_id, for every adapter.
C17_NoDuplicateSourceIds ==
    pc = "done" =>
        \A j, k \in 1..Len(all_listings) :
            j # k => all_listings[j] # all_listings[k]

\* the part of C17 that the code keeps: AutoScout24Source.fetch returns no
\* source_id twice
C17_AutoScout24NoDuplicates ==
    adapter = "autoscout24" => C17_NoDuplicateSourceIds


\* C18 (as claimed): once configuration and criteria have loaded, no failure
\* while handling a source or a listing (fetch, evaluate, upsert_and_diff,
\* notification) ends the run before the remaining sources and listings
\* are handled and the report is written; only a load failure aborts it.
C18_OnlyLoadFailureAborts == run_pc = "aborted" => failures = {"config"}

\* the part of C18 that the code keeps: a send_telegram that fails does not
\* end the run
C18_NotificationFailureNotFatal ==
    run_pc = "aborted" => failures \cap {"config", "fetch", "upsert"} # {}


\* the names of the options of a table
Names(table) == {table[i].name : i \in 1..Len(table)}

\* the items of the detected dict of result r for the options of a table
DetectedOf(r, table) == {d \in r.detected : d[1] \in Names(table)}

\* "approved" occurs, in any case, in title + options_text + options_list
MentionsApproved(l) == Contains("approved", Lower(SearchText(l)))

\* the options_text the compared listing takes: with a keyword of every
\* soft must-have, and with none
SoftTexts == {BaseListing.options_text, "Chrono, Lift, 4WS, Sitzheizung"}

\* C19: soft must-haves never reject. Each soft must-have not detected is
\* listed in must_have_missing; and of two listings whose evaluation differs
\* only in which soft must-haves are detected, reasons and is_match are
\* equal and the scores differ by 10 for each soft must-have missing.
C19_SoftMissingNeverRejects ==
    Done =>
        /\ \A n \in Names(SOFT_MUST_HAVE_KEYWORDS) :
               (<<n, FALSE>> \in Res.detected)
               <=> (\E k \in 1..Len(Res.must_have_missing) :
                        Res.must_have_missing[k] = n)
        /\ \A o \in SoftTexts :
               (/\ o # listing.options_text
                /\ (Len(o) > 20) = (Len(listing.options_text) > 20))
               => LET other == [listing EXCEPT !.options_text = o]
                      r2 == evaluate(other, criteria)
                  IN  (/\ DetectedOf(r2, HARD_MUST_HAVE_KEYWORDS)
                            = DetectedOf(Res, HARD_MUST_HAVE_KEYWORDS)
                       /\ DetectedOf(r2, NICE_TO_HAVE_KEYWORDS)
                            = DetectedOf(Res, NICE_TO_HAVE_KEYWORDS)
                       /\ MentionsApproved(other) = MentionsApproved(listing))
                      => /\ r2.reasons = Res.reasons
                         /\ r2.is_match = Res.is_match
                         /\ Res.score + 10 * Len(Res.must_have_missing)
                              = r2.score + 10 * Len(r2.must_have_missing)

\* C19 witness: a listing with every hard must-have and no soft one in an
\* options_text of more than 20 characters matched, with a score of
\* 100 - 4 * 10 + 10
C19_Witness ==
    /\ Done
    /\ listing.options_text = "Chrono, Lift, 4WS, Sitzheizung"
    /\ Len(Res.must_have_missing) = 4
    /\ Res.is_match
    /\ Res.score = 70

BodyTextHas(l, word) ==
    \/ Contains(word, Lower(l.title))
    \/ ~IsNone(l.variant) /\ Contains(word, Lower(Val(l.variant)))
    \/ ~IsNone(l.body_type) /\ Contains(word, Lower(Val(l.body_type)))

\* C21: evaluate adds the 'body type excluded' reason iff "targa" occurs
\* (case-insensitively) in title, variant or body_type, or "gts" does not
\* occur there. A GTS Cabriolet title is accepted (no "targa" elsewhere), a
\* Targa GTS title is rejected, a non-GTS title is rejected (no "gts"
\* elsewhere); a listing with the reason is no match.
C21_BodyTypeCheck ==
    Done =>
        LET excluded == HasReason(Res, "body type excluded")
            rest == [listing EXCEPT !.title = ""]
        IN  /\ excluded <=> (\/ BodyTextHas(listing, "targa")
                             \/ ~BodyTextHas(listing, "gts"))
            /\ excluded => Res.is_match = FALSE
            /\ (/\ listing.title = "Porsche 911 992.1 Carrera 4 GTS Cabriolet"
                /\ ~BodyTextHas(rest, "targa"))
                 => ~excluded
            /\ listing.title = "Porsche 911 992.1 Targa 4 GTS" => excluded
            /\ (/\ listing.title = "Porsche 911 992.1 Carrera 4S"
                /\ ~BodyTextHas(rest, "gts"))
                 => excluded

\* C21 witness: a title without GTS was accepted for the "gts" of its
\* variant, in lower case
C21_Witness ==
    /\ Done
    /\ listing.title = "Porsche 911 992.1 Carrera 4S"
    /\ listing.variant = Some("Carrera 4 gts")
    /\ Res.is_match

\* C21 second witness: a GTS title was rejected for the "TARGA" of its
\* body_type alone
C21_WitnessTarga ==
    /\ Done
    /\ listing.title = BaseListing.title
    /\ listing.body_type = Some("TARGA")
    /\ Res.reasons = <<"body type excluded (Targa/non-GTS)">>


\* reason is one of the reasons of result r
Gives(r, reason) == \E i \in 1..Len(r.reasons) : r.reasons[i] = reason

\* some reason of result r starts with the given text
HasReasonFrom(r, start) ==
    \E i \in 1..Len(r.reasons) :
        /\ Len(r.reasons[i]) >= Len(start)
        /\ SubSeq(r.reasons[i], 1, Len(start)) = start

\* the reasons of the three threshold checks for a price p over a cap, an
\* owner count n over a maximum, a year y outside a range
PriceReason(p, cap) ==
    "price " \o IntToStr(p) \o " EUR > " \o IntToStr(cap) \o " EUR"
OwnersReason(n, cap) == "owners " \o IntToStr(n) \o " > " \o IntToStr(cap)
YearReason(y, range) ==
    "year " \o IntToStr(y) \o " outside " \o IntToStr(range[1]) \o "-"
    \o IntToStr(range[2])

\* the year of a listing as the claim resolves it: the year field when it
\* is present, else the first four digits of first_registration
PresentYear(l) ==
    IF ~IsNone(l.year) THEN l.year
    ELSE IF IsNone(l.first_registration) THEN None
    ELSE LET m == FirstFourDigits(Val(l.first_registration))
         IN  IF IsNone(m) THEN None ELSE Some(ParseInt(Val(m)))

\* the same, a year field of 0 counting as absent
NonZeroYear(l) ==
    PresentYear([l EXCEPT !.year = IF @ = Some(0) THEN None ELSE @])

\* the owners and years checks against result r, the year resolved to y:
\* a present value beyond the limit gives its reason and no match, any
\* other value gives no reason of that check
OwnersAndYear(r, l, c, y) ==
    LET owners_max == IF IsNone(c.owners_max) THEN 2 ELSE Val(c.owners_max)
        range == IF IsNone(c.years) THEN <<2020, 2024>> ELSE Val(c.years)
    IN  /\ IF ~IsNone(l.owners) /\ Val(l.owners) > owners_max
           THEN Gives(r, OwnersReason(Val(l.owners), owners_max))
                /\ r.is_match = FALSE
           ELSE ~HasReasonFrom(r, "owners ")
        /\ IF ~IsNone(y) /\ (Val(y) < range[1] \/ Val(y) > range[2])
           THEN Gives(r, YearReason(Val(y), range)) /\ r.is_match = FALSE
           ELSE ~HasReasonFrom(r, "year ")

\* the price check against result r, the cap being cap (None: no cap)
PriceCheck(r, l, cap) ==
    IF ~IsNone(cap) /\ ~IsNone(l.price_eur) /\ Val(l.price_eur) > Val(cap)
    THEN Gives(r, PriceReason(Val(l.price_eur), Val(cap)))
         /\ r.is_match = FALSE
    ELSE ~HasReasonFrom(r, "price ")

\* C22 (as claimed): for each threshold check, a present value beyond the
\* limit rejects with its own reason and an absent value never does:
\* price_eur > price_eur_max when the key is configured; owners > owners_max
\* (default 2); the year, resolved from the year field when present and else
\* from the first 4-digit token of first_registration, outside years
\* (default [2020, 2024]).
C22_ThresholdChecks ==
    Done =>
        /\ PriceCheck(Res, listing, criteria.price_eur_max)
        /\ OwnersAndYear(Res, listing, criteria, PresentYear(listing))

\* C22 (amended): the same, where a price_eur_max of 0 is no cap and a year
\* field of 0 counts as absent (the year is then taken from
\* first_registration).
C22_ThresholdChecksNonZero ==
    Done =>
        /\ PriceCheck(Res, listing,
                      IF criteria.price_eur_max = Some(0) THEN None
                      ELSE criteria.price_eur_max)
        /\ OwnersAndYear(Res, listing, criteria, NonZeroYear(listing))

\* C22 witness: a listing without year field was rejected for the year in
\* its first_registration
C22_Witness ==
    /\ Done
    /\ IsNone(listing.year)
    /\ listing.first_registration = Some("03/2018")
    /\ Gives(Res, "year 2018 outside 2020-2024")
    /\ Res.is_match = FALSE

\* C22 second witness: three owners were accepted under an owners_max of 3
\* and rejected under the default
C22_WitnessOwners ==
    /\ Done
    /\ listing.owners = Some(3)
    /\ \/ criteria.owners_max = Some(3) /\ Res.is_match
       \/ IsNone(criteria.owners_max) /\ Res.reasons = <<"owners 3 > 2">>


\* how many options of a table have a keyword in the lower-cased text t
NumDetected(t, table) ==
    Cardinality({i \in 1..Len(table) :
                    \E k \in table[i].keywords : Contains(k, t)})

\* the geo bonus of the claim: max(10 - 2N, 2) for the smallest N whose
\* geo_priority[N] is in the location, in any case; 0 without location,
\* without geo_priority or without such an entry
ClaimedGeoBonus(l, c) ==
    LET geo == IF IsNone(c.geo_priority) THEN <<>> ELSE Val(c.geo_priority)
        hits == {N \in 0..(Len(geo) - 1) : LocationHas(l.location, geo[N + 1])}
    IN  IF hits = {} THEN 0
        ELSE LET N == CHOOSE h \in hits : \A g \in hits : h <= g
             IN  IF 10 - 2 * N > 2 THEN 10 - 2 * N ELSE 2

\* C23: score == 100 + 10 * (nice-to-have options detected)
\* - 10 * (soft must-haves not detected) - 15 * (hard must-haves not
\* detected, whether or not they caused rejection) + geo bonus; the score is
\* not clamped.
C23_ScoreFormula ==
    Done =>
        LET t == Lower(SearchText(listing))
        IN  Res.score =
                100
                + 10 * NumDetected(t, NICE_TO_HAVE_KEYWORDS)
                - 10 * (Len(SOFT_MUST_HAVE_KEYWORDS)
                        - NumDetected(t, SOFT_MUST_HAVE_KEYWORDS))
                - 15 * (Len(HARD_MUST_HAVE_KEYWORDS)
                        - NumDetected(t, HARD_MUST_HAVE_KEYWORDS))
                + ClaimedGeoBonus(listing, criteria)

\* C23 witness: a location that has the sixth entry of geo_priority
\* earned the floor of 2, and the score went over 100
C23_Witness ==
    /\ Done
    /\ listing.location = Some("Hamburg")
    /\ ~IsNone(criteria.geo_priority)
    /\ Len(Val(criteria.geo_priority)) = 6
    /\ Res.score = 102

\* C23 second witness: a listing without options_text matched, its three
\* hard must-haves missing deducted all the same: 100 - 40 - 45 + 10
C23_WitnessHard ==
    /\ Done
    /\ listing.options_text = ""
    /\ Res.is_match
    /\ Res.score = 25

\* C23 third witness: a score over 100
C23_WitnessOver ==
    /\ Done
    /\ Res.score = 120


\* of the key of the last call: the listing of its call before the last
HadPrevious == Called /\ ~IsNone(latest[Key(Arg)].previous)
Previous == Val(latest[Key(Arg)].previous)

\* C24: after any sequence of upserts for a key, the stored row's url,
\* title, price_eur, mileage_km, status and fingerprint are those of the
\* most recently upserted listing (a null overwrites an earlier known
\* value), first_seen remains the time of the first upsert, and the
\* previous_price/previous_status returned by an upsert are the values of
\* the immediately preceding upsert of that key.
C24_RowIsLatestSnapshot ==
    /\ DOMAIN latest = DOMAIN rows
    /\ \A k \in DOMAIN latest :
           LET l == latest[k].listing
           IN  /\ rows[k].url = l.url
               /\ rows[k].title = l.title
               /\ rows[k].price_eur = l.price_eur
               /\ rows[k].mileage_km = l.mileage_km
               /\ rows[k].status = l.status
               /\ rows[k].fingerprint = _fingerprint(l)
               /\ rows[k].first_seen = latest[k].first
    /\ HadPrevious =>
           /\ Info.previous_price = Previous.price_eur
           /\ Info.previous_status = Previous.status

\* C24 witness: a key first upserted with a price and a status was upserted
\* in a later second with a null price, which the row now has
C24_Witness ==
    /\ HadPrevious
    /\ ~IsNone(Previous.price_eur)
    /\ IsNone(Arg.price_eur)
    /\ IsNone(rows[Key(Arg)].price_eur)
    /\ rows[Key(Arg)].first_seen < now
    /\ Info.previous_price = Some(140000)

\* value is known (price) / non-empty (status)
Known(x) == ~IsNone(x)
NonEmpty(x) == ~IsNone(x) /\ Val(x) # ""

\* C25: for an upsert on an existing key, changes has no keys other than
\* price_eur and status; it has price_eur iff the stored price and the new
\* price are both known and differ, with value (stored, new); it has status
\* iff the stored status and the new status are both non-empty and differ.
\* A transition between an unknown and a known price yields no price_eur
\* entry even when is_changed is true.
C25_ChangesArePriceAndStatus ==
    HadPrevious =>
        LET p_old == Previous.price_eur
            p_new == Arg.price_eur
            s_old == Previous.status
            s_new == Arg.status
        IN  /\ DOMAIN Info.changes \subseteq {"price_eur", "status"}
            /\ "price_eur" \in DOMAIN Info.changes
                 <=> (Known(p_old) /\ Known(p_new) /\ p_old # p_new)
            /\ "price_eur" \in DOMAIN Info.changes
                 => Info.changes["price_eur"] = <<Val(p_old), Val(p_new)>>
            /\ "status" \in DOMAIN Info.changes
                 <=> (NonEmpty(s_old) /\ NonEmpty(s_new) /\ s_old # s_new)
            /\ "status" \in DOMAIN Info.changes
                 => Info.changes["status"] = <<Val(s_old), Val(s_new)>>

\* C25 witness: the price of a key went from unknown to known; the upsert
\* reported is_changed and no changes
C25_Witness ==
    /\ HadPrevious
    /\ IsNone(Previous.price_eur)
    /\ Arg.price_eur = Some(140000)
    /\ Info.is_changed
    /\ DOMAIN Info.changes = {}

\* C25 second witness: a status went from "" to "active" without a changes
\* entry, or from "active" to "sold" with one
C25_WitnessStatus ==
    /\ HadPrevious
    /\ Previous.status = Some("active")
    /\ Arg.status = Some("sold")
    /\ Info.changes = ("status" :> <<"active", "sold">>)

\* the fingerprinted fields of a listing
Fingerprinted(l) ==
    <<l.title, l.price_eur, l.mileage_km, l.first_registration, l.location,
      l.accident_free, l.porsche_approved_months, l.options_text, l.status>>

\* C26 (as claimed): for an upsert on an existing key, is_changed is true
\* whenever the new listing differs from the stored snapshot in at least
\* one fingerprinted field, the digest taken as collision-free; a non-empty
\* changes mapping implies is_changed.
C26_FieldDifferenceIsChange ==
    HadPrevious =>
        /\ Fingerprinted(Arg) # Fingerprinted(Previous) => Info.is_changed
        /\ DOMAIN Info.changes # {} => Info.is_changed

\* the part of C26 that holds on the inputs of the model: a non-empty
\* changes mapping implies is_changed
C26_ChangesImplyChanged ==
    HadPrevious => (DOMAIN Info.changes # {} => Info.is_changed)


\* fetch is about to send an HTTP request
AboutToRequest == pc \in {"curl", "get"}

\* that request is the first one for its URL
FirstForUrl == tries = <<>> /\ ~(pc = "get" /\ has_curl_cffi)

\* the fetch has sent a request before
RequestedBefore == DOMAIN fetched # {} \/ ~FirstForUrl

\* C27 (as claimed): within one fetch, any two consecutive HTTP requests are
\* separated by a sleep of at least the configured request delay: requests
\* for further pages, fallback requests for the same URL, and requests for
\* the next URL after a URL that produced no listings.
C27_SleepBetweenRequests ==
    (AboutToRequest /\ RequestedBefore) => idle >= request_delay_seconds

\* the part of C27 that the code keeps: Source.fetch and MobileDeSource.fetch
\* sleep before the first request for every URL but the first, and
\* AutoScout24Source.fetch before every page request once it has a listing
C27_SleepBeforeNextUrl ==
    (/\ AboutToRequest
     /\ FirstForUrl
     /\ IF adapter = "autoscout24" THEN all_listings # <<>> ELSE url_i > 1)
    => idle >= request_delay_seconds


\* the strategies of a parser in the order in which it tries them, each by
\* the listings it yields for the page
Yields(p, doc) ==
    LET raw == raw_listings(doc)
        next == IF IsNone(raw) THEN <<>> ELSE ListingsOf(Val(raw))
    IN  IF p \in {"autoscout24", "autoscout24_pages"}
        THEN <<next, FirstScript(doc.json_ld)>>
        ELSE IF p = "porsche_finder"
        THEN <<next, FirstScript(doc.json_ld), ScriptJson(doc),
               ListingsOf(doc.cards)>>
        ELSE <<AllScripts(doc.json_ld), ListingsOf(doc.cards)>>

\* the first non-empty list of a sequence of lists, <<>> if there is none
RECURSIVE FirstNonEmpty(_)
FirstNonEmpty(lists) ==
    IF lists = <<>> THEN <<>>
    ELSE IF Head(lists) # <<>> THEN Head(lists)
    ELSE FirstNonEmpty(Tail(lists))

\* C28 (as claimed): each adapter's parser tries its strategies in a fixed
\* order and returns the result of the first strategy that yields a
\* non-empty list; a strategy that yields an empty list never ends the
\* search, the next strategy is tried.
C28_FirstNonEmptyStrategyWins ==
    ~IsNone(parsed) => Val(parsed) = FirstNonEmpty(Yields(parser, html))

\* the part of C28 that the code keeps: the parsers of PorscheFinderSource
\* and MobileDeSource return the result of the first strategy that yields
\* any listing
C28_FinderAndMobileDeFallThrough ==
    parser \in {"porsche_finder", "mobile_de"}
    => C28_FirstNonEmptyStrategyWins


\* send_telegram was called for the k-th listing handled by the run in work
\* (results holds the listings of run number runs once run_pc left "start")
NotifiedAt(k) ==
    \E j \in 1..Len(notified) : notified[j].run = runs /\ notified[j].at = k

\* the k-th listing handled by the run in work has the fingerprinted
\* content that the upsert before it of the same key had
SeenUnchanged(k) ==
    LET l == results[k].listing
        h == latest[Key(l)]
    IN  /\ ~IsNone(h.previous)
        /\ Fingerprinted(Val(h.previous)) = Fingerprinted(l)

\* C29: during run, a notification is attempted for a listing iff evaluate
\* gives is_match = true and its ChangeInfo has is_new or is_changed, and
\* Telegram is enabled with a chat id; a rejected listing never notifies,
\* and a matching listing seen again in a later run with unchanged
\* fingerprinted content triggers no second notification.
C29_NotifyMatchesOnChange ==
    run_pc # "start" =>
    /\ Len(changes) = Len(results)
    /\ \A j \in 1..Len(notified) :
           notified[j].run = runs => notified[j].at \in 1..Len(results)
    /\ \A k \in 1..Len(results) :
           /\ NotifiedAt(k)
                <=> /\ results[k].is_match
                    /\ changes[k].is_new \/ changes[k].is_changed
                    /\ cfg.telegram
           /\ results[k].reasons # <<>> => ~NotifiedAt(k)
           /\ SeenUnchanged(k) => ~NotifiedAt(k)

\* C29 witness: the second run handled a matching listing that the first
\* run had notified, found it unchanged and did not notify again
C29_Witness ==
    /\ runs = 2
    /\ run_pc = "finished"
    /\ \E k \in 1..Len(results) :
           /\ results[k].is_match
           /\ SeenUnchanged(k)
           /\ ~NotifiedAt(k)
           /\ \E j \in 1..Len(notified) :
                  /\ notified[j].run = 1
                  /\ notified[j].key = Key(results[k].listing)

\* C29 second witness: the second run notified a listing again, for its
\* lower price
C29_WitnessChanged ==
    /\ runs = 2
    /\ run_pc = "finished"
    /\ \E k \in 1..Len(results) :
           /\ NotifiedAt(k)
           /\ changes[k].is_changed
           /\ \E j \in 1..Len(notified) :
                  /\ notified[j].run = 1
                  /\ notified[j].key = Key(results[k].listing)


\* the pages of configured URL i that fetch has handled
PagesOf(i) == {p \in 1..(MAX_PAGES + 1) : Url(i, p) \in DOMAIN fetched}

\* fetch has just handled a page of the URL in work
JustHandled == pc = "url" /\ tries # <<>>

\* that page, what it was answered with at the last attempt, and what
\* came of it
HandledPage == CHOOSE p \in PagesOf(url_i) : \A q \in PagesOf(url_i) : q <= p
Answered == tries[Len(tries)]
Handled == fetched[Url(url_i, HandledPage)]

\* the pagination of the URL in work goes on with the page after it
GoesOn == page = HandledPage + 1 /\ page <= MAX_PAGES

\* the page number has reached the numberOfPages that the page reports
ReachedReported ==
    /\ ~IsNone(Answered.numberOfPages)
    /\ HandledPage >= Val(Answered.numberOfPages)

\* the same for a report other than 0
ReachedReportedNonZero ==
    ReachedReported /\ Val(Answered.numberOfPages) # 0

\* the pagination of C30, with reached for "the page number reaches the
\* reported numberOfPages": no request for a page past MAX_PAGES; the
\* pages handled of a URL are the first ones, MAX_PAGES at most; the
\* pagination stops exactly at a page that failed, yielded no listings,
\* reached the count or is page MAX_PAGES; every configured URL before the
\* one in work, and at the end every URL, has had its first page handled
Paginates(reached) ==
    /\ pc = "get" => page \in 1..MAX_PAGES
    /\ \A i \in 1..Len(urls) :
           /\ Cardinality(PagesOf(i)) <= MAX_PAGES
           /\ PagesOf(i) = 1..Cardinality(PagesOf(i))
           /\ (i < url_i \/ pc = "done") => 1 \in PagesOf(i)
    /\ JustHandled =>
           (~GoesOn <=> \/ ~Handled.ok
                        \/ Handled.ids = <<>>
                        \/ reached
                        \/ HandledPage = MAX_PAGES)

\* C30 (as claimed): AutoScout24Source.fetch terminates and issues at most
\* MAX_PAGES (20) page requests per configured base URL: the pagination of a
\* base URL stops at the first page that yields no listings, at the page
\* whose number reaches the reported numberOfPages, at the first page whose
\* fetch fails, or after page 20, and fetch then continues with the next
\* base URL.
C30_PaginationStops == []Paginates(ReachedReported) /\ <>(pc = "done")

\* C30 (amended): the same, where a reported numberOfPages of 0 stops
\* nothing.
C30_PaginationStopsNonZero ==
    []Paginates(ReachedReportedNonZero) /\ <>(pc = "done")

\* C30 witness: fetch has returned; it handled MAX_PAGES pages of the
\* first URL, the last of them with listings, and then the second URL
C30_Witness ==
    /\ pc = "done"
    /\ PagesOf(1) = 1..MAX_PAGES
    /\ fetched[Url(1, MAX_PAGES)].ok
    /\ fetched[Url(1, MAX_PAGES)].ids # <<>>
    /\ 1 \in PagesOf(2)

\* C30 second witness: a page with listings reports a numberOfPages, not
\* 0, that its number has reached, and the pagination stops
C30_WitnessReported ==
    /\ JustHandled
    /\ Handled.ok
    /\ Handled.ids # <<>>
    /\ HandledPage < MAX_PAGES
    /\ ReachedReportedNonZero
    /\ ~GoesOn

\* C30 third witness: a page with listings reports a numberOfPages of 0
\* and the pagination goes on
C30_WitnessZero ==
    /\ JustHandled
    /\ Answered.numberOfPages = Some(0)
    /\ GoesOn

============================================================================
